---- MODULE Spec2Model ----
(***************************************************************************)
(* KC868-A16 controller firmware: the schedule / trigger evaluation engine *)
(* (ScheduleManager), the output and input layer it drives                 *)
(* (HardwareManager), the interrupt-priority dispatcher (InterruptManager) *)
(* and the control loop (KC868_A16::loop) that calls them.                 *)
(*                                                                         *)
(* Conventions                                                             *)
(*  - unsigned C integers are naturals; bit tests use Bit(x, b).           *)
(*  - float values (sensor readings, sensorThreshold) are held in quarter  *)
(*    units (value * 4); all such values are exact in binary32, so the     *)
(*    comparisons below are the comparisons the firmware performs.         *)
(*  - the wall clock is `now`, seconds since Sunday 00:00:00; the fields   *)
(*    of DateTime are computed from it.                                    *)
(*  - `log` is the trace of the handler that ran last: the calls it made   *)
(*    on the output layer and the evaluator's local results.  Steps of the *)
(*    environment (time passing, input lines changing) clear it.           *)
(***************************************************************************)
EXTENDS Integers, Sequences, FiniteSets, TLC

VARIABLES
    schedules,          \* ScheduleManager::_schedules[MAX_SCHEDULES]
    outputStates,       \* HardwareManager::_outputStates[16]
    inputStates,        \* HardwareManager::_inputStates[16]
    directInputStates,  \* HardwareManager::_directInputStates[3]
    sensors,            \* SensorManager::_htSensorConfig[3]
    now,                \* wall clock (RTC), seconds since Sunday 00:00:00
    lastTimeCheck,      \* KC868_A16::_lastTimeCheck, in clock seconds
    interruptConfigs,   \* InterruptManager::_interruptConfigs[16]
    inputStateChanged,  \* InterruptManager::_inputStateChanged[16]
    interruptsEnabled,  \* InterruptManager::_interruptsEnabled
    prevInputStates,    \* static prevInputStates[16] of processInputInterrupts
    eeprom,             \* persisted schedule region (EEPROM from address 512)
    tickFires,          \* history: dispatches made by checkSchedules per
                        \* schedule during the current clock minute
    log,                \* trace of the last handler
    physicalOutputs,    \* relay levels on the pins of the output expanders
    pinFaults,          \* output pins whose I2C write currently fails
    analogTriggers,     \* ScheduleManager::_analogTriggers[MAX_ANALOG_TRIGGERS]
    triggerStore,       \* persisted trigger region (EEPROM from address 2048)
    interruptStore,     \* persisted interrupt configuration region
    inputLines,         \* levels on the pins of the input expanders
    analogValues,       \* HardwareManager::_analogValues[4]
    analogLines,        \* averaged ADC readings the four analog pins deliver
    systemTime,         \* ESP32 system clock, time(nullptr), in seconds
    rtcInitialized,     \* SensorManager::_rtcInitialized
    rtcTime,            \* time kept by the DS3231 RTC, in seconds
    ntpPc,              \* position of a syncTimeFromNTP call: "idle", "loop"
    ntpNow,             \* syncTimeFromNTP: local variable now
    retry               \* syncTimeFromNTP: local variable retry

vars == <<schedules, outputStates, inputStates, directInputStates, sensors,
          now, lastTimeCheck, interruptConfigs, inputStateChanged,
          interruptsEnabled, prevInputStates, eeprom, tickFires, log,
          physicalOutputs, pinFaults,
          analogTriggers, triggerStore, interruptStore, inputLines,
          analogValues, analogLines,
          systemTime, rtcInitialized, rtcTime, ntpPc, ntpNow, retry>>

\* the clock sources and the state of a network time sync
clockVars == <<systemTime, rtcInitialized, rtcTime, ntpPc, ntpNow, retry>>

\* the variables no clock handler writes
controllerVars ==
    <<schedules, outputStates, inputStates, directInputStates, sensors, now,
      lastTimeCheck, interruptConfigs, inputStateChanged, interruptsEnabled,
      prevInputStates, eeprom, tickFires, physicalOutputs, pinFaults,
      analogTriggers, triggerStore, interruptStore, inputLines, analogValues,
      analogLines>>

\* no network time sync is running; the RTC was found by initRTC
ClockIdle ==
    /\ systemTime = 0
    /\ rtcInitialized = TRUE
    /\ rtcTime = 0
    /\ ntpPc = "idle"
    /\ ntpNow = 0
    /\ retry = 0

(***************************************************************************)
(* Program constants                                                       *)
(***************************************************************************)
MAX_SCHEDULES == 30
NUM_OUTPUTS == 16
NUM_INPUTS == 16
NUM_DIRECT == 3
NUM_MASK_BITS == 19
TIME_WINDOW == 5
TEMP_TOLERANCE == 2
HUM_TOLERANCE == 8
DEFAULT_THRESHOLD == 100
INPUT_PRIORITY_NONE == 0
INPUT_PRIORITY_HIGH == 1
INPUT_PRIORITY_MEDIUM == 2
INPUT_PRIORITY_LOW == 3
INTERRUPT_TRIGGER_RISING == 0
INTERRUPT_TRIGGER_FALLING == 1
INTERRUPT_TRIGGER_CHANGE == 2
INTERRUPT_TRIGGER_HIGH_LEVEL == 3
INTERRUPT_TRIGGER_LOW_LEVEL == 4
SENSOR_TYPE_DIGITAL == 0
SENSOR_TYPE_DHT11 == 1
SENSOR_TYPE_DHT22 == 2
SENSOR_TYPE_DS18B20 == 3
EEPROM_SIZE == 4096
EEPROM_SCHEDULE_ADDR == 512
EEPROM_TRIGGER_ADDR == 2048
EEPROM_INTERRUPT_CONFIG_ADDR == 3584
EEPROM_SCHEDULE_WRITE_LIMIT == 1536
SCHEDULE_JSON_OVERHEAD == 225
DOC_JSON_OVERHEAD == 16
MAX_ANALOG_TRIGGERS == 16
NUM_ANALOG == 4
ANALOG_CHANGE_THRESHOLD == 10
ANALOG_TOLERANCE == 50
DEFAULT_ANALOG_THRESHOLD == 2048
EEPROM_TRIGGER_WRITE_LIMIT == 1024
TRIGGER_JSON_OVERHEAD == 99
TRIGGERS_DOC_JSON_OVERHEAD == 15
EEPROM_INTERRUPT_WRITE_LIMIT == 1024
INTERRUPT_JSON_OVERHEAD == 63
INTERRUPTS_DOC_JSON_OVERHEAD == 17

(***************************************************************************)
(* Bounds of the model                                                     *)
(***************************************************************************)
MaxElapsed == 9     \* seconds the clock runs past its start
MaxLag == 2         \* seconds the loop may fall behind before it ticks
MaxFires == 3       \* tickFires saturates here

ScheduleIds == 0 .. (MAX_SCHEDULES - 1)
Outputs == 0 .. (NUM_OUTPUTS - 1)
Inputs == 0 .. (NUM_INPUTS - 1)
DirectInputs == 0 .. (NUM_DIRECT - 1)
TriggerIds == 0 .. (MAX_ANALOG_TRIGGERS - 1)
AnalogInputs == 0 .. (NUM_ANALOG - 1)

(***************************************************************************)
(* Integer helpers                                                         *)
(***************************************************************************)
Bit(x, b) == (x \div (2 ^ b)) % 2 = 1

Abs(x) == IF x > 0 THEN x ELSE 0 - x

Min(a, b) == IF a < b THEN a ELSE b

U8(x) == x % 256

U16(x) == x % 65536

RECURSIVE DecLen(_)
DecLen(n) == IF n < 10 THEN 1 ELSE 1 + DecLen(n \div 10)

(***************************************************************************)
(* Clock source: the fields of the DateTime returned by getCurrentTime     *)
(***************************************************************************)
DayOfTheWeek(t) == (t \div 86400) % 7
Hour(t) == (t \div 3600) % 24
Minute(t) == (t \div 60) % 60
Second(t) == t % 60
MinuteId(t) == t \div 60
ClockAt(d, h, m, s) == d * 86400 + h * 3600 + m * 60 + s

(***************************************************************************)
(* Rule store: the default schedule written by the constructor             *)
(***************************************************************************)
DefaultSchedule(i) ==
    [enabled |-> FALSE, triggerType |-> 0, days |-> 0, hour |-> 0,
     minute |-> 0, inputMask |-> 0, inputStates |-> 0, logic |-> 0,
     action |-> 0, targetType |-> 0, targetId |-> 0, targetIdLow |-> 0,
     sensorIndex |-> 0, sensorTriggerType |-> 0, sensorCondition |-> 0,
     sensorThreshold |-> DEFAULT_THRESHOLD,
     name |-> "Schedule " \o ToString(i + 1)]

DefaultSchedules == [i \in ScheduleIds |-> DefaultSchedule(i)]

\* the default analog trigger written by the constructor
DefaultAnalogTrigger(i) ==
    [enabled |-> FALSE, analogInput |-> 0,
     threshold |-> DEFAULT_ANALOG_THRESHOLD, condition |-> 0, action |-> 0,
     targetType |-> 0, targetId |-> 0,
     name |-> "Trigger " \o ToString(i + 1)]

DefaultAnalogTriggers == [i \in TriggerIds |-> DefaultAnalogTrigger(i)]

\* the analog readings written by the constructor
NoAnalogValues == [i \in AnalogInputs |-> 0]

\* HardwareManager::readAllAnalogInputs on stored readings cur while the pins
\* deliver lines: a reading replaces the stored one when it is more than
\* ANALOG_CHANGE_THRESHOLD away from it
ReadAllAnalogInputs(cur, lines) ==
    LET moved == {i \in AnalogInputs :
                     Abs(lines[i] - cur[i]) > ANALOG_CHANGE_THRESHOLD}
    IN  [values |-> [i \in AnalogInputs |->
                        IF i \in moved THEN lines[i] ELSE cur[i]],
         changed |-> moved # {}]

AllOff == [j \in Outputs |-> FALSE]

(***************************************************************************)
(* Output layer (HardwareManager).  A handler threads the record           *)
(* hw = [out, log]: the staged output vector and the trace so far.         *)
(***************************************************************************)
GetOutputStateShort(out, index) ==
    IF index < NUM_OUTPUTS - 1 THEN out[index] ELSE FALSE

GetOutputState(out, index) == IF index < NUM_OUTPUTS THEN out[index] ELSE FALSE

SetOutputState(hw, index, state) ==
    IF index < NUM_OUTPUTS
    THEN [hw EXCEPT !.out = [hw.out EXCEPT ![index] = state],
                    !.log = Append(hw.log, <<"set", index, state>>)]
    ELSE [hw EXCEPT !.log = Append(hw.log, <<"set", index, state>>)]

\* writeOutputs and the copy of the staged vector it would leave if a failed
\* write were undone
WriteOutputsRollback(hw) ==
    [hw EXCEPT !.phys = [j \in Outputs |->
                            IF j \in pinFaults THEN hw.phys[j] ELSE hw.out[j]],
               !.out = IF pinFaults = {} THEN hw.out ELSE hw.phys,
               !.log = Append(hw.log, <<"write", pinFaults = {}>>)]

\* writeOutputs: every pin is written in turn; a pin whose write fails keeps
\* its level, the others take the staged level; the event carries `success`
WriteOutputs(hw) ==
    [hw EXCEPT !.phys = [j \in Outputs |->
                            IF j \in pinFaults THEN hw.phys[j] ELSE hw.out[j]],
               !.log = Append(hw.log, <<"write", pinFaults = {}>>)]

(***************************************************************************)
(* Action dispatcher (ScheduleManager::executeScheduleAction)              *)
(***************************************************************************)
\* if (!writeOutputs()) Serial.println("ERROR: Failed to write outputs ...")
ReportWrite(hw) ==
    IF hw.log[Len(hw.log)][2] THEN hw
    ELSE [hw EXCEPT !.log = Append(hw.log, <<"error", "write">>)]

\* the value a relay is staged to by action 0=OFF, 1=ON, 2=TOGGLE
ActionValue(out, action, relay) ==
    IF action = 0 THEN FALSE
    ELSE IF action = 1 THEN TRUE
    ELSE ~GetOutputState(out, relay)

ApplyActionWriteEach(hw, action, relay) ==
    IF action \in {0, 1, 2}
    THEN WriteOutputs(
            SetOutputState(hw, relay, ActionValue(hw.out, action, relay)))
    ELSE hw

\* one relay of a dispatch: the if / else-if chain on action
ApplyAction(hw, action, relay) ==
    IF action \in {0, 1, 2}
    THEN SetOutputState(hw, relay, ActionValue(hw.out, action, relay))
    ELSE hw

\* Single target: uint8_t relay = targetId; if (relay < 16) ...
ApplySingle(hw, action, targetId) ==
    LET relay == U8(targetId)
    IN  IF relay < NUM_OUTPUTS THEN ApplyAction(hw, action, relay) ELSE hw

\* Bitmask target: for (j = 0; j < 16; j++) if (targetId & (1 << j)) ...
RECURSIVE ApplyBitmask(_, _, _, _)
ApplyBitmask(hw, action, targetId, j) ==
    IF j >= NUM_OUTPUTS THEN hw
    ELSE ApplyBitmask(IF Bit(targetId, j) THEN ApplyAction(hw, action, j)
                      ELSE hw,
                      action, targetId, j + 1)

ExecuteScheduleActionUnguarded(hw, scheduleIndex, targetId) ==
    IF scheduleIndex < 0 \/ scheduleIndex >= MAX_SCHEDULES THEN hw
    ELSE
      LET s == schedules[scheduleIndex]
          h0 == [hw EXCEPT !.log = Append(hw.log,
                    <<"dispatch", scheduleIndex, targetId, hw.out, hw.phys>>)]
          h1 == IF s.targetType = 0 THEN ApplySingle(h0, s.action, targetId)
                ELSE IF s.targetType = 1
                     THEN ApplyBitmask(h0, s.action, targetId, 0)
                     ELSE h0
      IN  ReportWrite(WriteOutputs(h1))

ExecuteScheduleAction(hw, scheduleIndex, targetId) ==
    IF scheduleIndex < 0 \/ scheduleIndex >= MAX_SCHEDULES THEN hw
    ELSE IF ~schedules[scheduleIndex].enabled THEN hw
    ELSE
      LET s == schedules[scheduleIndex]
          h0 == [hw EXCEPT !.log = Append(hw.log,
                    <<"dispatch", scheduleIndex, targetId, hw.out, hw.phys>>)]
          h1 == IF s.targetType = 0 THEN ApplySingle(h0, s.action, targetId)
                ELSE IF s.targetType = 1
                     THEN ApplyBitmask(h0, s.action, targetId, 0)
                     ELSE h0
      IN  ReportWrite(WriteOutputs(h1))

ExecuteScheduleActionSecondary(hw, scheduleIndex) ==
    ExecuteScheduleAction(hw, scheduleIndex,
                          schedules[scheduleIndex].targetIdLow)

\* the one-argument helper: the schedule's primary target
ExecuteScheduleActionPrimary(hw, scheduleIndex) ==
    ExecuteScheduleAction(hw, scheduleIndex, schedules[scheduleIndex].targetId)

ExecuteSchedule(hw, scheduleIndex) ==
    IF scheduleIndex < 0 \/ scheduleIndex >= MAX_SCHEDULES THEN hw
    ELSE IF ~schedules[scheduleIndex].enabled THEN hw
    ELSE ExecuteScheduleActionPrimary(hw, scheduleIndex)

(***************************************************************************)
(* Condition evaluator (ScheduleManager)                                   *)
(***************************************************************************)
RECURSIVE DigitalMask(_)
DigitalMask(i) ==
    IF i >= NUM_INPUTS THEN 0
    ELSE (IF inputStates[i] THEN 2 ^ i ELSE 0) + DigitalMask(i + 1)

RECURSIVE DirectMask(_)
DirectMask(i) ==
    IF i >= NUM_DIRECT THEN 0
    ELSE (IF directInputStates[i] THEN 2 ^ (16 + i) ELSE 0) + DirectMask(i + 1)

CalculateInputStateMask == DigitalMask(0) + DirectMask(0)

\* days & (1 << dayOfTheWeek)
DayMatches(s, t) == Bit(s.days, DayOfTheWeek(t))

HourMinuteMatches(s, t) == Hour(t) = s.hour /\ Minute(t) = s.minute

InFiringWindowInclusive(t) == Second(t) <= TIME_WINDOW

InFiringWindow(t) == Second(t) < TIME_WINDOW

\* checkSchedules: the day, hour, minute and second test of one schedule
TimeTriggerMet(s, t) ==
    DayMatches(s, t) /\ HourMinuteMatches(s, t) /\ InFiringWindow(t)

\* full scan: timeConditionMet of a Combined schedule
TimeConditionMet(s, t) ==
    IF ~DayMatches(s, t) THEN FALSE ELSE HourMinuteMatches(s, t)

TimeConditionMetSingleNoDay(s, t) == HourMinuteMatches(s, t)

\* single-input pass: timeConditionMet of a Combined schedule
TimeConditionMetSingle(s, t) ==
    IF ~DayMatches(s, t) THEN FALSE ELSE HourMinuteMatches(s, t)

\* acc |= bitMask on a uint16_t accumulator
OrBit16(acc, bitPos) ==
    IF bitPos < 16 /\ ~Bit(acc, bitPos) THEN acc + 2 ^ bitPos ELSE acc

\* full scan, AND logic: stops at the first mismatch
RECURSIVE AndLoop(_, _, _, _)
AndLoop(s, cur, bitPos, acc) ==
    IF bitPos >= NUM_MASK_BITS THEN acc
    ELSE IF Bit(s.inputMask, bitPos)
    THEN LET desiredState == Bit(s.inputStates, bitPos)
             currentState == Bit(cur, bitPos)
         IN  IF currentState # desiredState
             THEN [acc EXCEPT !.met = FALSE]
             ELSE AndLoop(s, cur, bitPos + 1,
                    IF currentState
                    THEN [acc EXCEPT !.high = OrBit16(acc.high, bitPos)]
                    ELSE [acc EXCEPT !.low = OrBit16(acc.low, bitPos)])
    ELSE AndLoop(s, cur, bitPos + 1, acc)

\* full scan, OR logic: visits every bit of the mask
RECURSIVE OrLoop(_, _, _, _)
OrLoop(s, cur, bitPos, acc) ==
    IF bitPos >= NUM_MASK_BITS THEN acc
    ELSE IF Bit(s.inputMask, bitPos)
    THEN LET desiredState == Bit(s.inputStates, bitPos)
             currentState == Bit(cur, bitPos)
             tallied == IF currentState
                        THEN [acc EXCEPT !.high = OrBit16(acc.high, bitPos)]
                        ELSE [acc EXCEPT !.low = OrBit16(acc.low, bitPos)]
         IN  OrLoop(s, cur, bitPos + 1,
                    IF currentState = desiredState
                    THEN [tallied EXCEPT !.met = TRUE]
                    ELSE tallied)
    ELSE OrLoop(s, cur, bitPos + 1, acc)

InputCondition(s, cur) ==
    IF s.logic = 0
    THEN AndLoop(s, cur, 0, [met |-> TRUE, high |-> 0, low |-> 0])
    ELSE OrLoop(s, cur, 0, [met |-> FALSE, high |-> 0, low |-> 0])

TemperatureEqualInclusive(value, threshold) ==
    Abs(value - threshold) <= TEMP_TOLERANCE

\* abs(currentTemp - threshold) < 0.5f
TemperatureEqual(value, threshold) == Abs(value - threshold) < TEMP_TOLERANCE

\* abs(currentHumidity - threshold) < 2.0f
HumidityEqual(value, threshold) == Abs(value - threshold) < HUM_TOLERANCE

SensorCompare(cond, value, threshold, isTemperature) ==
    IF cond = 0 THEN value > threshold
    ELSE IF cond = 1 THEN value < threshold
    ELSE IF cond = 2
         THEN IF isTemperature THEN TemperatureEqual(value, threshold)
              ELSE HumidityEqual(value, threshold)
         ELSE FALSE

\* sensorConditionMet of a Sensor schedule whose sensor is valid
SensorConditionMet(s) ==
    LET sensor == sensors[s.sensorIndex]
    IN  IF s.sensorTriggerType = 0
        THEN SensorCompare(s.sensorCondition, sensor.temperature,
                           s.sensorThreshold, TRUE)
        ELSE IF s.sensorTriggerType = 1
                /\ sensor.sensorType \in {SENSOR_TYPE_DHT11, SENSOR_TYPE_DHT22}
             THEN SensorCompare(s.sensorCondition, sensor.humidity,
                                s.sensorThreshold, FALSE)
             ELSE FALSE

SensorCondition(s) ==
    LET met == SensorConditionMet(s)
    IN  [met |-> met, high |-> IF met THEN 1 ELSE 0,
         low |-> IF met THEN 0 ELSE 1]

DispatchHighLowSwapped(hw, i, c) ==
    LET s == schedules[i]
        h1 == IF c.high # 0 /\ s.targetId > 0
              THEN ExecuteScheduleAction(hw, i, s.targetIdLow) ELSE hw
    IN  IF c.low # 0 /\ s.targetIdLow > 0
        THEN ExecuteScheduleAction(h1, i, s.targetId) ELSE h1

DispatchHighLowLowFirst(hw, i, c) ==
    LET s == schedules[i]
        h1 == IF c.low # 0 /\ s.targetIdLow > 0
              THEN ExecuteScheduleAction(hw, i, s.targetIdLow) ELSE hw
    IN  IF c.high # 0 /\ s.targetId > 0
        THEN ExecuteScheduleAction(h1, i, s.targetId) ELSE h1

\* the dual-target dispatch at the end of a full-scan iteration
DispatchHighLow(hw, i, c) ==
    LET s == schedules[i]
        h1 == IF c.high # 0 /\ s.targetId > 0
              THEN ExecuteScheduleAction(hw, i, s.targetId) ELSE hw
    IN  IF c.low # 0 /\ s.targetIdLow > 0
        THEN ExecuteScheduleAction(h1, i, s.targetIdLow) ELSE h1

\* one iteration of the full scan
ScanSchedule(hw, i, cur) ==
    LET s == schedules[i]
    IN  IF ~s.enabled THEN hw
        ELSE IF s.triggerType \notin {1, 2, 3} THEN hw
        ELSE IF s.triggerType \in {1, 2} /\ s.inputMask = 0 THEN hw
        ELSE IF s.triggerType = 2 /\ ~TimeConditionMet(s, now) THEN hw
        ELSE IF s.triggerType = 3 /\ s.sensorIndex >= 3 THEN hw
        ELSE IF s.triggerType = 3
                /\ sensors[s.sensorIndex].sensorType = SENSOR_TYPE_DIGITAL
             THEN hw
        ELSE
          LET c == IF s.triggerType = 3 THEN SensorCondition(s)
                   ELSE InputCondition(s, cur)
              h0 == [hw EXCEPT !.log =
                        Append(hw.log, <<"cond", i, c.met, c.high, c.low>>)]
          IN  IF c.met THEN DispatchHighLow(h0, i, c) ELSE h0

\* the first iteration at or after i that gets past `if (!enabled) continue`,
\* MAX_SCHEDULES when the loop runs out
NextEnabled(i) ==
    LET E == {j \in ScheduleIds : j >= i /\ schedules[j].enabled}
    IN  IF E = {} THEN MAX_SCHEDULES
        ELSE CHOOSE j \in E : \A k \in E : j <= k

RECURSIVE ScanFrom(_, _, _)
ScanFrom(hw, i, cur) ==
    LET j == NextEnabled(i)
    IN  IF j >= MAX_SCHEDULES THEN hw
        ELSE ScanFrom(ScanSchedule(hw, j, cur), j + 1, cur)

\* checkInputBasedSchedules(): the full scan
CheckInputBasedSchedules(hw) ==
    ScanFrom([hw EXCEPT !.log = Append(hw.log, <<"fullScan">>)], 0,
             CalculateInputStateMask)

\* single-input pass, AND logic
RECURSIVE AndLoopSingle(_, _, _)
AndLoopSingle(s, cur, bitPos) ==
    IF bitPos >= NUM_MASK_BITS THEN TRUE
    ELSE IF Bit(s.inputMask, bitPos)
            /\ Bit(cur, bitPos) # Bit(s.inputStates, bitPos)
         THEN FALSE
         ELSE AndLoopSingle(s, cur, bitPos + 1)

\* single-input pass, OR logic
RECURSIVE OrLoopSingle(_, _, _)
OrLoopSingle(s, cur, bitPos) ==
    IF bitPos >= NUM_MASK_BITS THEN FALSE
    ELSE IF Bit(s.inputMask, bitPos)
            /\ Bit(cur, bitPos) = Bit(s.inputStates, bitPos)
         THEN TRUE
         ELSE OrLoopSingle(s, cur, bitPos + 1)

InputConditionSingle(s, cur) ==
    IF s.inputMask # 0
    THEN IF s.logic = 0 THEN AndLoopSingle(s, cur, 0)
         ELSE OrLoopSingle(s, cur, 0)
    ELSE FALSE

\* one iteration of the single-input pass
CheckScheduleForInput(hw, i, changedInputIndex, cur) ==
    LET s == schedules[i]
        changedInputMask == U16(2 ^ changedInputIndex)
    IN  IF ~s.enabled THEN hw
        ELSE IF s.triggerType \notin {1, 2} THEN hw
        ELSE IF ~(\E b \in 0 .. 15 :
                     Bit(s.inputMask, b) /\ Bit(changedInputMask, b))
             THEN hw
        ELSE IF s.triggerType = 2 /\ ~TimeConditionMetSingle(s, now) THEN hw
        ELSE
          LET met == InputConditionSingle(s, cur)
              h0 == [hw EXCEPT !.log = Append(hw.log, <<"cond1", i, met>>)]
          IN  IF met THEN ExecuteSchedule(h0, i) ELSE h0

RECURSIVE CheckForInputFrom(_, _, _, _)
CheckForInputFrom(hw, i, changedInputIndex, cur) ==
    LET j == NextEnabled(i)
    IN  IF j >= MAX_SCHEDULES THEN hw
        ELSE CheckForInputFrom(
                CheckScheduleForInput(hw, j, changedInputIndex, cur),
                j + 1, changedInputIndex, cur)

\* checkInputBasedSchedules(int, bool): the single-input pass
CheckInputBasedSchedulesFor(hw, changedInputIndex, newState) ==
    CheckForInputFrom(hw, 0, changedInputIndex, CalculateInputStateMask)

CheckScheduleAnyType(hw, i) ==
    LET s == schedules[i]
    IN  IF ~s.enabled THEN hw
        ELSE IF ~TimeTriggerMet(s, now) THEN hw
        ELSE IF s.triggerType # 2 THEN ExecuteScheduleActionPrimary(hw, i)
        ELSE CheckInputBasedSchedules(hw)

\* one iteration of the time-based pass
CheckSchedule(hw, i) ==
    LET s == schedules[i]
    IN  IF ~s.enabled THEN hw
        ELSE IF s.triggerType \notin {0, 2} THEN hw
        ELSE IF ~TimeTriggerMet(s, now) THEN hw
        ELSE IF s.triggerType = 0 THEN ExecuteScheduleActionPrimary(hw, i)
        ELSE CheckInputBasedSchedules(hw)

RECURSIVE CheckSchedulesFrom(_, _)
CheckSchedulesFrom(hw, i) ==
    LET j == NextEnabled(i)
    IN  IF j >= MAX_SCHEDULES THEN hw
        ELSE CheckSchedulesFrom(CheckSchedule(hw, j), j + 1)

\* checkSchedules(): the time-based pass
CheckSchedules(hw) ==
    CheckSchedulesFrom([hw EXCEPT !.log = Append(hw.log, <<"checkSchedules">>)],
                       0)

(***************************************************************************)
(* State after construction and begin()                                    *)
(***************************************************************************)
MaxDispatches == 3  \* dispatches kept in one trace

ReadingSpread == 1  \* readings reach this far past either side of a tolerance

NumVarInputs == 2   \* input lines 0 .. NumVarInputs-1 change level

VarInputs == 0 .. (NumVarInputs - 1)

InputVectors == {[i \in Inputs |-> i \in S] : S \in SUBSET VarInputs}

NoDirectInputs == [i \in DirectInputs |-> FALSE]

DefaultSensors ==
    [i \in 0 .. 2 |-> [sensorType |-> SENSOR_TYPE_DIGITAL,
                       temperature |-> 0, humidity |-> 0]]

DefaultInterruptConfig(i) ==
    [enabled |-> FALSE, priority |-> INPUT_PRIORITY_MEDIUM, inputIndex |-> i,
     triggerType |-> INTERRUPT_TRIGGER_CHANGE,
     name |-> "Input " \o ToString(i + 1)]

DefaultInterruptConfigs == [i \in Inputs |-> DefaultInterruptConfig(i)]

NoFlags == [i \in Inputs |-> FALSE]

\* a store region never written: its first byte is the terminator.  saved:
\* the region holds text; garbled: the text is no JSON document; doc: the
\* objects of the stored array; n: the size of the serialized document; nul:
\* offsets in the region at which the save of another store wrote a 0 byte
EmptyEeprom ==
    [saved |-> FALSE, garbled |-> FALSE, doc |-> << >>, n |-> 0, nul |-> {}]

\* the region [base, end) holding e after EEPROM.write(addr, 0) of another
\* store's save; a write at or past EEPROM_SIZE is dropped
Terminated(e, base, end, addr) ==
    IF addr >= base /\ addr < end /\ addr < EEPROM_SIZE
    THEN [e EXCEPT !.nul = @ \cup {addr - base}]
    ELSE e

NoFires == [i \in ScheduleIds |-> 0]

\* the integer fields of TimeSchedule declared uint16_t; the others are uint8_t
WideFields == {"inputMask", "inputStates", "targetId", "targetIdLow"}

\* a rule as updateSchedule stores it: name and threshold defaults of the
\* JSON reader, an integer of the request narrowed to the width of its field
Rule(fields) ==
    [f \in DOMAIN DefaultSchedule(0) |->
        IF f \in DOMAIN fields
        THEN IF f \in {"enabled", "name", "sensorThreshold"} THEN fields[f]
             ELSE IF f \in WideFields THEN U16(fields[f])
             ELSE U8(fields[f])
        ELSE IF f = "name" THEN "Schedule"
        ELSE DefaultSchedule(0)[f]]

\* the rule set with rule r0 in slot 0 and rule r1 in the last slot
RuleSet(r0, r1) ==
    [i \in ScheduleIds |->
        IF i = 0 THEN r0
        ELSE IF i = MAX_SCHEDULES - 1 THEN r1
        ELSE DefaultSchedule(i)]

Quiescent ==
    /\ outputStates = AllOff
    /\ physicalOutputs = AllOff
    /\ pinFaults = {}
    /\ directInputStates = NoDirectInputs
    /\ sensors = DefaultSensors
    /\ interruptConfigs = DefaultInterruptConfigs
    /\ inputStateChanged = NoFlags
    /\ interruptsEnabled = FALSE
    /\ prevInputStates = NoFlags
    /\ eeprom = EmptyEeprom
    /\ analogTriggers = DefaultAnalogTriggers
    /\ analogValues = NoAnalogValues
    /\ analogLines = NoAnalogValues
    /\ ClockIdle
    /\ triggerStore = EmptyEeprom
    /\ interruptStore = EmptyEeprom
    /\ tickFires = NoFires
    /\ log = << >>

StartHw == [out |-> outputStates, phys |-> physicalOutputs, log |-> << >>]

Commit(hw) ==
    /\ outputStates' = hw.out
    /\ physicalOutputs' = hw.phys
    /\ log' = hw.log

\* trace queries
IsEvent(e, tag) == e[1] = tag

Dispatches(l, i) ==
    {k \in 1 .. Len(l) : IsEvent(l[k], "dispatch") /\ l[k][2] = i}

DispatchTargets(l, i) == {l[k][3] : k \in Dispatches(l, i)}

SetRelays(l) == {l[k][2] : k \in {j \in 1 .. Len(l) : IsEvent(l[j], "set")}}

StartedBy(l, tag) == Len(l) > 0 /\ IsEvent(l[1], tag)

\* the schedule whose dispatch the event at position k belongs to (-1: none)
RECURSIVE OwnerOf(_, _)
OwnerOf(l, k) ==
    IF k < 1 THEN -1
    ELSE IF IsEvent(l[k], "dispatch") THEN l[k][2]
    ELSE OwnerOf(l, k - 1)

\* the relays staged by the dispatches of schedule i
RelaysSetBy(l, i) ==
    {l[k][2] : k \in {j \in 1 .. Len(l) :
                        IsEvent(l[j], "set") /\ OwnerOf(l, j) = i}}

\* the evaluator's result for schedule i: <<met, high, low>> of each "cond"
Conditions(l, i) ==
    {<<l[k][3], l[k][4], l[k][5]>> :
        k \in {j \in 1 .. Len(l) : IsEvent(l[j], "cond") /\ l[j][2] = i}}

(***************************************************************************)
(* Control loop: the one-second schedule tick (KC868_A16::loop)            *)
(***************************************************************************)
ClockStarts == {ClockAt(0, 7, 59, 57), ClockAt(1, 7, 59, 57)}

\* a second of wall-clock time passes between two loop iterations
TimePasses ==
    /\ \E st \in ClockStarts : st <= now /\ now < st + MaxElapsed
    /\ now - lastTimeCheck < MaxLag
    /\ now' = now + 1
    /\ tickFires' = IF MinuteId(now + 1) # MinuteId(now) THEN NoFires
                    ELSE tickFires
    /\ log' = << >>
    /\ UNCHANGED <<clockVars, analogValues, analogLines,
                   inputLines, analogTriggers, triggerStore, interruptStore,
                   physicalOutputs, pinFaults,
                   schedules, outputStates, inputStates, directInputStates,
                   sensors, lastTimeCheck, interruptConfigs, inputStateChanged,
                   interruptsEnabled, prevInputStates, eeprom>>

\* if (currentMillis - _lastTimeCheck >= 1000) checkSchedules();
LoopTimeCheck ==
    /\ now - lastTimeCheck >= 1
    /\ lastTimeCheck' = now
    /\ LET hw == CheckSchedules(StartHw)
       IN  /\ Commit(hw)
           /\ tickFires' = [i \in ScheduleIds |->
                 Min(MaxFires, tickFires[i] + Cardinality(Dispatches(hw.log, i)))]
    /\ UNCHANGED <<clockVars, analogValues, analogLines,
                   inputLines, analogTriggers, triggerStore, interruptStore,
                   pinFaults, schedules, inputStates, directInputStates,
                   sensors, now,
                   interruptConfigs, inputStateChanged, interruptsEnabled,
                   prevInputStates, eeprom>>

TimeRules ==
    {Rule([enabled |-> en, triggerType |-> 0, days |-> d, hour |-> hm[1],
           minute |-> hm[2], action |-> a, targetType |-> 0, targetId |-> 3]) :
        en \in BOOLEAN, d \in {1, 2, 127}, hm \in {<<8, 0>>, <<7, 59>>},
        a \in {1, 2}}

CombinedRule ==
    Rule([enabled |-> TRUE, triggerType |-> 2, days |-> 1, hour |-> 8,
          minute |-> 0, inputMask |-> 1, inputStates |-> 1, logic |-> 0,
          action |-> 1, targetType |-> 0, targetId |-> 5, targetIdLow |-> 7])

TimeInit ==
    /\ schedules \in {RuleSet(r0, r1) :
          r0 \in TimeRules,
          r1 \in {DefaultSchedule(MAX_SCHEDULES - 1), CombinedRule}}
    /\ inputStates \in InputVectors
    /\ inputLines = inputStates
    /\ now \in ClockStarts
    /\ lastTimeCheck = now
    /\ Quiescent

TimeNext == TimePasses \/ LoopTimeCheck

SpecTime == TimeInit /\ [][TimeNext]_vars

\* C1: during a minute in which an enabled Time schedule matches the clock
\* (day bit, hour, minute), the one-second tick dispatches its action at most
\* once, however many ticks fall inside seconds 0..4.
C1_OncePerMinute ==
    \A i \in ScheduleIds :
        (schedules[i].enabled /\ schedules[i].triggerType = 0) =>
            tickFires[i] <= 1

\* C2: the time-based pass dispatches an enabled Time schedule, on its
\* targetId, exactly when the day bit of the current weekday is set, hour and
\* minute equal the clock and the second is below 5.
C2_TimeDispatchIff ==
    StartedBy(log, "checkSchedules") =>
        \A i \in ScheduleIds :
            (schedules[i].enabled /\ schedules[i].triggerType = 0) =>
                /\ (Dispatches(log, i) # {}) <=>
                      /\ (schedules[i].days \div (2 ^ DayOfTheWeek(now))) % 2 = 1
                      /\ schedules[i].hour = Hour(now)
                      /\ schedules[i].minute = Minute(now)
                      /\ Second(now) \in 0 .. 4
                /\ DispatchTargets(log, i) \subseteq {schedules[i].targetId}

\* a tick at second 4 of the qualifying minute has dispatched a Time schedule
C2_Witness ==
    /\ StartedBy(log, "checkSchedules")
    /\ Second(now) = 4
    /\ \E i \in ScheduleIds :
          /\ schedules[i].enabled /\ schedules[i].triggerType = 0
          /\ Dispatches(log, i) # {}

(***************************************************************************)
(* Full scan on request, with the input lines sampled by the loop          *)
(***************************************************************************)
\* loop: readInputs() every 100 ms while interrupt dispatch is off; the
\* expander lines take any level, the HT pins stay pulled up
LoopReadInputs ==
    /\ ~interruptsEnabled
    /\ inputLines' \in InputVectors
    /\ inputStates' = inputLines'
    /\ log' = << >>
    /\ UNCHANGED <<clockVars, analogValues, analogLines,
                   analogTriggers, triggerStore, interruptStore,
                   physicalOutputs, pinFaults,
                   schedules, outputStates, directInputStates, sensors, now,
                   lastTimeCheck, interruptConfigs, inputStateChanged,
                   interruptsEnabled, prevInputStates, eeprom, tickFires>>

\* WebServerManager::handleEvaluateInputSchedules
EvaluateRequest ==
    /\ Commit(CheckInputBasedSchedules(StartHw))
    /\ UNCHANGED <<clockVars, analogValues, analogLines,
                   inputLines, analogTriggers, triggerStore, interruptStore,
                   pinFaults, schedules, inputStates, directInputStates,
                   sensors, now,
                   lastTimeCheck, interruptConfigs, inputStateChanged,
                   interruptsEnabled, prevInputStates, eeprom, tickFires>>

InputRules ==
    {Rule([enabled |-> TRUE, triggerType |-> 1, inputMask |-> m,
           inputStates |-> st, logic |-> lg, action |-> 1, targetType |-> 0,
           targetId |-> t[1], targetIdLow |-> t[2]]) :
        m \in {1, 2, 3}, st \in 0 .. 3, lg \in {0, 1},
        t \in {<<5, 7>>, <<0, 0>>, <<5, 0>>, <<0, 7>>}}

\* an enabled Time rule: the full scan must leave it alone
BystanderTimeRule ==
    Rule([enabled |-> TRUE, triggerType |-> 0, days |-> 127, hour |-> 8,
          minute |-> 0, action |-> 1, targetType |-> 0, targetId |-> 2])

ScanInit ==
    /\ schedules \in {RuleSet(r0, BystanderTimeRule) : r0 \in InputRules}
    /\ inputStates \in InputVectors
    /\ inputLines = inputStates
    /\ now = ClockAt(0, 8, 0, 2)
    /\ lastTimeCheck = now
    /\ Quiescent

ScanNext == LoopReadInputs \/ EvaluateRequest

SpecScan == ScanInit /\ [][ScanNext]_vars

IsInputRule(i) == schedules[i].enabled /\ schedules[i].triggerType = 1

MaskedInputs(i) == {b \in Inputs : Bit(schedules[i].inputMask, b)}

InputEqualsDesired(i, b) == inputStates[b] <=> Bit(schedules[i].inputStates, b)

\* C4: in the full scan an enabled AND Input schedule with a non-empty mask
\* dispatches an action if and only if every masked input equals its desired
\* bit.
C4_AndFiresIff ==
    StartedBy(log, "fullScan") =>
        \A i \in ScheduleIds :
            (IsInputRule(i) /\ schedules[i].logic = 0
                /\ schedules[i].inputMask # 0) =>
                ((Dispatches(log, i) # {}) <=>
                    \A b \in MaskedInputs(i) : InputEqualsDesired(i, b))

RECURSIVE SumPow(_)
SumPow(S) == IF S = {} THEN 0
             ELSE LET b == CHOOSE x \in S : TRUE
                  IN  2 ^ b + SumPow(S \ {b})

\* C5: in the full scan an enabled OR Input schedule dispatches an action if
\* and only if some masked input equals its desired bit, and the accumulators
\* are exactly the masked inputs currently true (high) and false (low).
C5_OrFiresIff ==
    StartedBy(log, "fullScan") =>
        \A i \in ScheduleIds :
            (IsInputRule(i) /\ schedules[i].logic = 1
                /\ schedules[i].inputMask # 0) =>
                /\ (Dispatches(log, i) # {}) <=>
                      \E b \in MaskedInputs(i) : InputEqualsDesired(i, b)
                /\ \A c \in Conditions(log, i) :
                      /\ c[2] = SumPow({b \in MaskedInputs(i) : inputStates[b]})
                      /\ c[3] = SumPow({b \in MaskedInputs(i) : ~inputStates[b]})

IsDualTargetRule(i) ==
    /\ IsInputRule(i)
    /\ schedules[i].targetType = 0
    /\ schedules[i].targetId = 5
    /\ schedules[i].targetIdLow = 7
    /\ Cardinality(MaskedInputs(i)) = 1

ShouldProcessEdgeOnly(cfg, prev, cur) ==
    IF cfg.triggerType = INTERRUPT_TRIGGER_RISING THEN ~prev /\ cur
    ELSE IF cfg.triggerType = INTERRUPT_TRIGGER_FALLING THEN prev /\ ~cur
    ELSE IF cfg.triggerType = INTERRUPT_TRIGGER_CHANGE THEN prev # cur
    ELSE IF cfg.triggerType = INTERRUPT_TRIGGER_HIGH_LEVEL THEN ~prev /\ cur
    ELSE IF cfg.triggerType = INTERRUPT_TRIGGER_LOW_LEVEL THEN prev /\ ~cur
    ELSE FALSE

\* the switch on triggerType of processInputInterrupts
ShouldProcess(cfg, prev, cur) ==
    IF cfg.triggerType = INTERRUPT_TRIGGER_RISING THEN ~prev /\ cur
    ELSE IF cfg.triggerType = INTERRUPT_TRIGGER_FALLING THEN prev /\ ~cur
    ELSE IF cfg.triggerType = INTERRUPT_TRIGGER_CHANGE THEN prev # cur
    ELSE IF cfg.triggerType = INTERRUPT_TRIGGER_HIGH_LEVEL THEN cur
    ELSE IF cfg.triggerType = INTERRUPT_TRIGGER_LOW_LEVEL THEN ~cur
    ELSE FALSE

\* the inputs the sampling loop flags in this call
Flagged(i) ==
    /\ interruptConfigs[i].enabled
    /\ ShouldProcess(interruptConfigs[i], prevInputStates[i], inputStates[i])

\* processInputChange: hand one input to the single-input pass
ProcessInputChange(hw, inputIndex, newState) ==
    CheckInputBasedSchedulesFor(
        [hw EXCEPT !.log = Append(hw.log, <<"input", inputIndex, newState>>)],
        inputIndex, newState)

\* the first iteration at or after i whose body one of the three priority
\* loops executes, NUM_INPUTS when the loop runs out
NextPending(flags, priority, i) ==
    LET P == {j \in Inputs : /\ j >= i
                             /\ interruptConfigs[j].enabled
                             /\ interruptConfigs[j].priority = priority
                             /\ flags[j]}
    IN  IF P = {} THEN NUM_INPUTS
        ELSE CHOOSE j \in P : \A k \in P : j <= k

RECURSIVE PriorityPassKeepFlag(_, _, _)
PriorityPassKeepFlag(st, priority, i) ==
    LET j == NextPending(st.flags, priority, i)
    IN  IF j >= NUM_INPUTS THEN st
        ELSE PriorityPassKeepFlag(
                [hw |-> ProcessInputChange(st.hw, j, inputStates[j]),
                 flags |-> st.flags],
                priority, j + 1)

\* one of the three priority loops; st = [hw, flags]
RECURSIVE PriorityPass(_, _, _)
PriorityPass(st, priority, i) ==
    LET j == NextPending(st.flags, priority, i)
    IN  IF j >= NUM_INPUTS THEN st
        ELSE PriorityPass(
                [hw |-> ProcessInputChange(st.hw, j, inputStates[j]),
                 flags |-> [st.flags EXCEPT ![j] = FALSE]],
                priority, j + 1)

PriorityPassesLowFirst(st) ==
    PriorityPass(
        PriorityPass(
            PriorityPass(st, INPUT_PRIORITY_LOW, 0),
            INPUT_PRIORITY_MEDIUM, 0),
        INPUT_PRIORITY_HIGH, 0)

\* the High, Medium, Low sequence of processInputInterrupts
PriorityPasses(st) ==
    PriorityPass(
        PriorityPass(
            PriorityPass(st, INPUT_PRIORITY_HIGH, 0),
            INPUT_PRIORITY_MEDIUM, 0),
        INPUT_PRIORITY_LOW, 0)

\* InterruptManager::processInputInterrupts, called by every loop iteration
ProcessInputInterrupts ==
    /\ interruptsEnabled
    /\ prevInputStates' = inputStates
    /\ LET flags == [i \in Inputs |-> inputStateChanged[i] \/ Flagged(i)]
           start == [hw |-> [out |-> outputStates, phys |-> physicalOutputs,
                             log |-> <<<<"irq">>>>],
                     flags |-> flags]
           done == IF \E i \in Inputs : Flagged(i) THEN PriorityPasses(start)
                   ELSE start
       IN  /\ inputStateChanged' = done.flags
           /\ Commit(done.hw)
    /\ UNCHANGED <<clockVars, analogValues, analogLines,
                   inputLines, analogTriggers, triggerStore, interruptStore,
                   pinFaults, schedules, inputStates, directInputStates,
                   sensors, now,
                   lastTimeCheck, interruptConfigs, interruptsEnabled, eeprom,
                   tickFires>>

(***************************************************************************)
(* The three evaluation paths together: time tick, full scan on request,   *)
(* single-input pass from the priority dispatcher                          *)
(***************************************************************************)
CombinedRules ==
    {Rule([enabled |-> TRUE, triggerType |-> 2, days |-> d, hour |-> hm[1],
           minute |-> hm[2], inputMask |-> 1, inputStates |-> 1, logic |-> 0,
           action |-> 1, targetType |-> 0, targetId |-> 5, targetIdLow |-> 7]) :
        d \in {1, 2}, hm \in {<<8, 0>>, <<8, 1>>, <<9, 0>>}}

\* input 0 dispatched at high priority while it is held high
LevelConfigs ==
    [DefaultInterruptConfigs EXCEPT
        ![0] = [@ EXCEPT !.enabled = TRUE, !.priority = INPUT_PRIORITY_HIGH,
                         !.triggerType = INTERRUPT_TRIGGER_HIGH_LEVEL]]

Init ==
    /\ schedules \in {RuleSet(r0, DefaultSchedule(MAX_SCHEDULES - 1)) :
                        r0 \in CombinedRules}
    /\ inputStates \in InputVectors
    /\ inputLines = inputStates
    /\ now \in ClockStarts
    /\ lastTimeCheck = now
    /\ outputStates = AllOff
    /\ physicalOutputs = AllOff
    /\ pinFaults = {}
    /\ directInputStates = NoDirectInputs
    /\ sensors = DefaultSensors
    /\ interruptConfigs = LevelConfigs
    /\ inputStateChanged = NoFlags
    /\ interruptsEnabled = TRUE
    /\ prevInputStates = NoFlags
    /\ eeprom = EmptyEeprom
    /\ analogTriggers = DefaultAnalogTriggers
    /\ analogValues = NoAnalogValues
    /\ analogLines = NoAnalogValues
    /\ ClockIdle
    /\ triggerStore = EmptyEeprom
    /\ interruptStore = EmptyEeprom
    /\ tickFires = NoFires
    /\ log = << >>

Next ==
    \/ TimePasses
    \/ LoopTimeCheck
    \/ EvaluateRequest
    \/ ProcessInputInterrupts

Spec == Init /\ [][Next]_vars

EvaluatedOrDispatched(l, i) ==
    \E k \in 1 .. Len(l) :
        /\ IsEvent(l[k], "cond") \/ IsEvent(l[k], "cond1")
           \/ IsEvent(l[k], "dispatch")
        /\ l[k][2] = i

GateFails(i) ==
    \/ (schedules[i].days \div (2 ^ DayOfTheWeek(now))) % 2 = 0
    \/ schedules[i].hour # Hour(now)
    \/ schedules[i].minute # Minute(now)

\* C3: a Combined schedule whose day / hour / minute gate fails has its input
\* condition neither evaluated nor its action dispatched, on the time tick,
\* the full scan and the single-input pass alike, whatever the inputs are.
C3_GateBlocksCombined ==
    \A i \in ScheduleIds :
        (schedules[i].triggerType = 2 /\ GateFails(i)) =>
            ~EvaluatedOrDispatched(log, i)

\* the dispatcher has handed a matching input to the single-input pass while
\* the gate of the Combined schedule on that input fails
C3_Witness ==
    /\ StartedBy(log, "irq")
    /\ \E i \in ScheduleIds :
          /\ schedules[i].enabled /\ schedules[i].triggerType = 2
          /\ GateFails(i)
          /\ \A b \in MaskedInputs(i) : InputEqualsDesired(i, b)
          /\ \E k \in 1 .. Len(log) :
                IsEvent(log[k], "input") /\ log[k][2] \in MaskedInputs(i)

(***************************************************************************)
(* Sensor schedules: readings arriving on HT2, full scan on request        *)
(***************************************************************************)
WiredSensor == 1    \* the HT port that has hardware attached

\* the readings a sensor delivers: the threshold, and on both sides of it the
\* values around the tolerance
Readings(tolerance) ==
    {DEFAULT_THRESHOLD} \cup
    {DEFAULT_THRESHOLD + sgn * (tolerance + dd) :
        sgn \in {-1, 1}, dd \in (0 - ReadingSpread) .. ReadingSpread}

\* SensorManager::updateSensorConfig
UpdateSensorConfig(index, sensorType) ==
    /\ index \in 0 .. 2
    /\ sensorType <= SENSOR_TYPE_DS18B20
    /\ sensors[index].sensorType # sensorType
    /\ sensors' = [sensors EXCEPT ![index] =
                      [sensorType |-> sensorType, temperature |-> 0,
                       humidity |-> 0]]
    /\ log' = << >>
    /\ UNCHANGED <<clockVars, analogValues, analogLines,
                   inputLines, analogTriggers, triggerStore, interruptStore,
                   physicalOutputs, pinFaults,
                   schedules, outputStates, inputStates, directInputStates, now,
                   lastTimeCheck, interruptConfigs, inputStateChanged,
                   interruptsEnabled, prevInputStates, eeprom, tickFires>>

\* SensorManager::readSensor with fresh values newTemperature, newHumidity
ReadSensor(cfg, newTemperature, newHumidity) ==
    IF cfg.sensorType \in {SENSOR_TYPE_DHT11, SENSOR_TYPE_DHT22}
    THEN [cfg EXCEPT !.humidity = newHumidity, !.temperature = newTemperature]
    ELSE IF cfg.sensorType = SENSOR_TYPE_DS18B20
    THEN [cfg EXCEPT !.temperature = newTemperature]
    ELSE cfg

\* the loop's one-second SensorManager::readAllSensors
ReadAllSensors ==
    /\ \E t \in Readings(TEMP_TOLERANCE), h \in Readings(HUM_TOLERANCE) :
          sensors' = [i \in DOMAIN sensors |->
                         IF i = WiredSensor THEN ReadSensor(sensors[i], t, h)
                         ELSE sensors[i]]
    /\ log' = << >>
    /\ UNCHANGED <<clockVars, analogValues, analogLines,
                   inputLines, analogTriggers, triggerStore, interruptStore,
                   physicalOutputs, pinFaults,
                   schedules, outputStates, inputStates, directInputStates, now,
                   lastTimeCheck, interruptConfigs, inputStateChanged,
                   interruptsEnabled, prevInputStates, eeprom, tickFires>>

SensorRules ==
    {Rule([enabled |-> TRUE, triggerType |-> 3, sensorIndex |-> ix,
           sensorTriggerType |-> tt, sensorCondition |-> sc,
           sensorThreshold |-> DEFAULT_THRESHOLD, action |-> 1,
           targetType |-> 0, targetId |-> 5, targetIdLow |-> 7]) :
        ix \in {WiredSensor, 3}, tt \in {0, 1}, sc \in {1, 2}}

SensorInit ==
    /\ schedules \in {RuleSet(r0, DefaultSchedule(MAX_SCHEDULES - 1)) :
                        r0 \in SensorRules}
    /\ inputStates = NoFlags
    /\ inputLines = inputStates
    /\ now = ClockAt(0, 8, 0, 2)
    /\ lastTimeCheck = now
    /\ Quiescent

SensorNext ==
    \/ \E ty \in SENSOR_TYPE_DIGITAL .. SENSOR_TYPE_DS18B20 :
          UpdateSensorConfig(WiredSensor, ty)
    \/ ReadAllSensors
    \/ EvaluateRequest

SpecSensor == SensorInit /\ [][SensorNext]_vars

\* an enabled Sensor schedule with condition Equal whose sensor delivers the
\* quantity the schedule watches
IsEqualRule(i) ==
    /\ schedules[i].enabled
    /\ schedules[i].triggerType = 3
    /\ schedules[i].sensorCondition = 2
    /\ schedules[i].sensorIndex < 3
    /\ LET ty == sensors[schedules[i].sensorIndex].sensorType
       IN  \/ schedules[i].sensorTriggerType = 0 /\ ty # SENSOR_TYPE_DIGITAL
           \/ /\ schedules[i].sensorTriggerType = 1
              /\ ty \in {SENSOR_TYPE_DHT11, SENSOR_TYPE_DHT22}

\* distance of the watched reading from the threshold, and its tolerance
ReadingDistance(i) ==
    LET sensor == sensors[schedules[i].sensorIndex]
    IN  Abs((IF schedules[i].sensorTriggerType = 0 THEN sensor.temperature
             ELSE sensor.humidity) - schedules[i].sensorThreshold)

ToleranceOf(i) ==
    IF schedules[i].sensorTriggerType = 0 THEN TEMP_TOLERANCE ELSE HUM_TOLERANCE

\* C7: a Sensor schedule with condition Equal matches when the reading is
\* strictly closer to sensorThreshold than the tolerance (0.5 for temperature,
\* 2.0 for humidity) and does not match at exactly the tolerance or beyond.
C7_EqualWithinTolerance ==
    StartedBy(log, "fullScan") =>
        \A i \in ScheduleIds :
            IsEqualRule(i) =>
                {c[1] : c \in Conditions(log, i)} =
                    {ReadingDistance(i) < ToleranceOf(i)}

\* a scan has evaluated an Equal rule whose temperature reading is exactly the
\* tolerance away from the threshold
C7_Witness ==
    /\ StartedBy(log, "fullScan")
    /\ \E i \in ScheduleIds :
          /\ IsEqualRule(i)
          /\ schedules[i].sensorTriggerType = 0
          /\ ReadingDistance(i) = TEMP_TOLERANCE
          /\ Conditions(log, i) # {}

(***************************************************************************)
(* Persistent store of the schedule array (saveSchedules / loadSchedules)  *)
(***************************************************************************)
\* characters serializeJson prints for a float held in quarter units
FloatLen(q) ==
    IF q % 4 = 0 THEN DecLen(q \div 4)
    ELSE IF q % 2 = 0 THEN DecLen(q \div 4) + 2
    ELSE DecLen(q \div 4) + 3

\* characters of one schedule object: keys and punctuation, then the values
ScheduleJsonLen(s) ==
    SCHEDULE_JSON_OVERHEAD
    + (IF s.enabled THEN 4 ELSE 5) + Len(s.name)
    + DecLen(s.triggerType) + DecLen(s.days) + DecLen(s.hour)
    + DecLen(s.minute) + DecLen(s.inputMask) + DecLen(s.inputStates)
    + DecLen(s.logic) + DecLen(s.action) + DecLen(s.targetType)
    + DecLen(s.targetId) + DecLen(s.targetIdLow) + DecLen(s.sensorIndex)
    + DecLen(s.sensorTriggerType) + DecLen(s.sensorCondition)
    + FloatLen(s.sensorThreshold)

RECURSIVE SchedulesJsonLen(_, _)
SchedulesJsonLen(sch, i) ==
    IF i >= MAX_SCHEDULES THEN 0
    ELSE ScheduleJsonLen(sch[i]) + SchedulesJsonLen(sch, i + 1)

\* n of saveSchedules: the size of the serialized document
JsonLen(sch) ==
    DOC_JSON_OVERHEAD + (MAX_SCHEDULES - 1) + SchedulesJsonLen(sch, 0)

\* saveSchedules: the document goes to the store cut at the write limit
SaveSchedules(sch) ==
    [saved |-> TRUE, garbled |-> FALSE,
     doc |-> [k \in 1 .. MAX_SCHEDULES |-> sch[k - 1]], n |-> JsonLen(sch),
     nul |-> {}]

\* the stored text parses: it is a JSON document, all of it was written and
\* no 0 byte cuts it short
Parses(e, limit) ==
    ~e.garbled /\ e.n <= limit /\ \A o \in e.nul : o >= e.n

\* loadSchedules started on the array cur: nothing is read from an empty
\* region; text that parses overwrites one schedule per stored object, a
\* missing field taking the reader's default; otherwise cur is left as it is
LoadSchedules(cur, e) ==
    IF ~e.saved THEN cur
    ELSE IF Parses(e, EEPROM_SCHEDULE_WRITE_LIMIT)
    THEN [i \in ScheduleIds |->
             IF i < Len(e.doc) THEN Rule(e.doc[i + 1]) ELSE cur[i]]
    ELSE cur

\* characters of one trigger object
TriggerJsonLen(t) ==
    TRIGGER_JSON_OVERHEAD
    + (IF t.enabled THEN 4 ELSE 5) + Len(t.name)
    + DecLen(t.analogInput) + DecLen(t.threshold) + DecLen(t.condition)
    + DecLen(t.action) + DecLen(t.targetType) + DecLen(t.targetId)

RECURSIVE TriggersJsonLen(_, _)
TriggersJsonLen(trg, i) ==
    IF i >= MAX_ANALOG_TRIGGERS THEN 0
    ELSE TriggerJsonLen(trg[i]) + TriggersJsonLen(trg, i + 1)

\* saveAnalogTriggers
SaveAnalogTriggers(trg) ==
    [saved |-> TRUE, garbled |-> FALSE,
     doc |-> [k \in 1 .. MAX_ANALOG_TRIGGERS |-> trg[k - 1]],
     n |-> TRIGGERS_DOC_JSON_OVERHEAD + (MAX_ANALOG_TRIGGERS - 1)
           + TriggersJsonLen(trg, 0),
     nul |-> {}]

\* a trigger as updateAnalogTrigger and loadAnalogTriggers read it from a
\* JSON object: the reader's defaults for the fields left out
Trigger(fields) ==
    [f \in DOMAIN DefaultAnalogTrigger(0) |->
        IF f \in DOMAIN fields THEN fields[f]
        ELSE IF f = "name" THEN "Trigger"
        ELSE DefaultAnalogTrigger(0)[f]]

\* loadAnalogTriggers started on the array cur
LoadAnalogTriggers(cur, e) ==
    IF ~e.saved THEN cur
    ELSE IF Parses(e, EEPROM_TRIGGER_WRITE_LIMIT)
    THEN [i \in TriggerIds |->
             IF i < Len(e.doc) THEN Trigger(e.doc[i + 1]) ELSE cur[i]]
    ELSE cur

\* characters of one interrupt configuration object
InterruptJsonLen(c) ==
    INTERRUPT_JSON_OVERHEAD
    + (IF c.enabled THEN 4 ELSE 5) + DecLen(c.priority)
    + DecLen(c.inputIndex) + DecLen(c.triggerType) + Len(c.name)

RECURSIVE InterruptsJsonLen(_, _)
InterruptsJsonLen(cfgs, i) ==
    IF i >= NUM_INPUTS THEN 0
    ELSE InterruptJsonLen(cfgs[i]) + InterruptsJsonLen(cfgs, i + 1)

\* saveInterruptConfigs
SaveInterruptConfigs(cfgs) ==
    [saved |-> TRUE, garbled |-> FALSE,
     doc |-> [k \in 1 .. NUM_INPUTS |-> cfgs[k - 1]],
     n |-> INTERRUPTS_DOC_JSON_OVERHEAD + (NUM_INPUTS - 1)
           + InterruptsJsonLen(cfgs, 0),
     nul |-> {}]

\* loadInterruptConfigs started on the array cur: a missing field takes the
\* reader's default, a missing name leaves the name as it is
LoadInterruptConfigs(cur, e) ==
    IF ~e.saved THEN cur
    ELSE IF Parses(e, EEPROM_INTERRUPT_WRITE_LIMIT)
    THEN [i \in Inputs |->
             IF i < Len(e.doc)
             THEN [f \in DOMAIN cur[i] |->
                      IF f \in DOMAIN e.doc[i + 1] THEN e.doc[i + 1][f]
                      ELSE IF f = "name" THEN cur[i].name
                      ELSE IF f = "enabled" THEN FALSE
                      ELSE IF f = "inputIndex" THEN i
                      ELSE DefaultInterruptConfig(i)[f]]
             ELSE cur[i]]
    ELSE cur

StoreIds == {0, MAX_SCHEDULES - 1}

StoreRules ==
    {Rule([enabled |-> TRUE, name |-> "Pump", days |-> 127, hour |-> 8,
           action |-> 1, targetId |-> 3]),
     Rule([enabled |-> TRUE, triggerType |-> 1, inputMask |-> 1,
           inputStates |-> 1, action |-> 2, targetId |-> 5, targetIdLow |-> 7]),
     Rule([triggerType |-> 3, sensorIndex |-> 1, sensorCondition |-> 2,
           sensorThreshold |-> 90, action |-> 1, targetId |-> 2])}

\* saveSchedules, the terminator: EEPROM.write(EEPROM_SCHEDULE_ADDR + n, 0)
\* falls into the region of another store when n passes the write limit
SchedulesTerminated(n) ==
    /\ triggerStore' =
          Terminated(triggerStore, EEPROM_TRIGGER_ADDR,
                     EEPROM_INTERRUPT_CONFIG_ADDR, EEPROM_SCHEDULE_ADDR + n)
    /\ interruptStore' =
          Terminated(interruptStore, EEPROM_INTERRUPT_CONFIG_ADDR, EEPROM_SIZE,
                     EEPROM_SCHEDULE_ADDR + n)

\* saveAnalogTriggers, the terminator: EEPROM.write(EEPROM_TRIGGER_ADDR + n, 0)
TriggersTerminated(n) ==
    interruptStore' =
        Terminated(interruptStore, EEPROM_INTERRUPT_CONFIG_ADDR, EEPROM_SIZE,
                   EEPROM_TRIGGER_ADDR + n)

\* handleUpdateSchedule, "schedule" branch: updateSchedule and its save
UpdateSchedule(id, rule) ==
    /\ IF id >= 0 /\ id < MAX_SCHEDULES
       THEN /\ schedules' = [schedules EXCEPT ![id] = rule]
            /\ eeprom' = SaveSchedules(schedules')
            /\ SchedulesTerminated(JsonLen(schedules'))
            /\ log' = <<<<"updateSchedule", id>>>>
       ELSE /\ UNCHANGED <<inputLines, schedules, eeprom, triggerStore,
                           interruptStore>>
            /\ log' = <<<<"updateSchedule", id>>, <<"return", FALSE>>>>
    /\ UNCHANGED <<clockVars, analogValues, analogLines,
                   inputLines, analogTriggers,
                   physicalOutputs, pinFaults,
                   outputStates, inputStates, directInputStates, sensors, now,
                   lastTimeCheck, interruptConfigs, inputStateChanged,
                   interruptsEnabled, prevInputStates, tickFires>>

SetScheduleEnabledCompacting(id, enabled) ==
    /\ id >= 0 /\ id < MAX_SCHEDULES
    /\ schedules' =
          IF enabled THEN [schedules EXCEPT ![id].enabled = TRUE]
          ELSE [j \in ScheduleIds |->
                   IF j < id THEN schedules[j]
                   ELSE IF j < MAX_SCHEDULES - 1 THEN schedules[j + 1]
                   ELSE DefaultSchedule(j)]
    /\ eeprom' = SaveSchedules(schedules')
    /\ SchedulesTerminated(JsonLen(schedules'))
    /\ log' = <<<<"setEnabled", id>>>>
    /\ UNCHANGED <<clockVars, analogValues, analogLines,
                   inputLines, analogTriggers,
                   physicalOutputs, pinFaults,
                   outputStates, inputStates, directInputStates, sensors, now,
                   lastTimeCheck, interruptConfigs, inputStateChanged,
                   interruptsEnabled, prevInputStates, tickFires>>

\* handleUpdateSchedule, "delete" and "enabled" branches
SetScheduleEnabled(id, enabled) ==
    /\ id >= 0 /\ id < MAX_SCHEDULES
    /\ schedules' = [schedules EXCEPT ![id].enabled = enabled]
    /\ eeprom' = SaveSchedules(schedules')
    /\ SchedulesTerminated(JsonLen(schedules'))
    /\ log' = <<<<"setEnabled", id>>>>
    /\ UNCHANGED <<clockVars, analogValues, analogLines,
                   inputLines, analogTriggers,
                   physicalOutputs, pinFaults,
                   outputStates, inputStates, directInputStates, sensors, now,
                   lastTimeCheck, interruptConfigs, inputStateChanged,
                   interruptsEnabled, prevInputStates, tickFires>>

\* power cycle: the constructor's defaults, then begin() loads the store
Reboot ==
    /\ schedules' = LoadSchedules(DefaultSchedules, eeprom)
    /\ analogTriggers' = LoadAnalogTriggers(DefaultAnalogTriggers, triggerStore)
    /\ outputStates' = AllOff
    /\ physicalOutputs' = AllOff
    /\ inputStateChanged' = NoFlags
    /\ prevInputStates' = NoFlags
    /\ tickFires' = NoFires
    /\ lastTimeCheck' = now
    /\ log' = <<<<"boot">>>>
    /\ interruptConfigs' =
          LoadInterruptConfigs(DefaultInterruptConfigs, interruptStore)
    /\ interruptsEnabled' =
          /\ \E i \in Inputs : interruptConfigs'[i].enabled
          /\ \E i \in Inputs : /\ interruptConfigs'[i].enabled
                                /\ interruptConfigs'[i].priority
                                      # INPUT_PRIORITY_NONE
    /\ inputStates' = inputLines
    /\ analogValues' = ReadAllAnalogInputs(NoAnalogValues, analogLines).values
    /\ UNCHANGED <<clockVars, inputLines, analogLines, triggerStore,
                   interruptStore, eeprom,
                   pinFaults, directInputStates, sensors, now>>

StoreInit ==
    /\ schedules = DefaultSchedules
    /\ inputStates = NoFlags
    /\ inputLines = inputStates
    /\ now = ClockAt(0, 8, 0, 2)
    /\ lastTimeCheck = now
    /\ Quiescent

StoreNext ==
    \/ \E id \in StoreIds, rule \in StoreRules : UpdateSchedule(id, rule)
    \/ \E id \in StoreIds, enabled \in BOOLEAN : SetScheduleEnabled(id, enabled)
    \/ Reboot

SpecStore == StoreInit /\ [][StoreNext]_vars

\* C8: loading back a saved 30-schedule array reproduces every field of every
\* schedule, whatever the array holds: after a restart that follows a save,
\* the array equals the array that was saved.
C8_RoundTrip ==
    (StartedBy(log, "boot") /\ eeprom.saved) =>
        \A i \in ScheduleIds : schedules[i] = eeprom.doc[i + 1]

(***************************************************************************)
(* Startup over a store that may have been damaged                         *)
(***************************************************************************)
BootTriggers ==
    {Trigger([enabled |-> TRUE, name |-> "Tank", analogInput |-> 1,
              threshold |-> 3000, action |-> 1, targetId |-> 4]),
     Trigger([condition |-> 1, targetType |-> 1, targetId |-> 3])}

\* handleUpdateAnalogTriggers: updateAnalogTrigger and its save
UpdateAnalogTrigger(id, trigger) ==
    /\ IF id >= 0 /\ id < MAX_ANALOG_TRIGGERS
       THEN /\ analogTriggers' = [analogTriggers EXCEPT ![id] = trigger]
            /\ triggerStore' = SaveAnalogTriggers(analogTriggers')
            /\ TriggersTerminated(triggerStore'.n)
            /\ log' = <<<<"updateAnalogTrigger", id>>>>
       ELSE /\ UNCHANGED <<inputLines, analogTriggers, triggerStore,
                           interruptStore>>
            /\ log' = <<<<"updateAnalogTrigger", id>>, <<"return", FALSE>>>>
    /\ UNCHANGED <<clockVars, analogValues, analogLines,
                   inputLines, schedules, eeprom, physicalOutputs,
                   pinFaults, outputStates, inputStates, directInputStates,
                   sensors, now,
                   lastTimeCheck, interruptConfigs, inputStateChanged,
                   interruptsEnabled, prevInputStates, tickFires>>

\* texts a damaged region can hold, as the loaders read them: bytes that are
\* no JSON document, or a well-formed document that lost part of the record
\* (here all but the first object, and that object's name)
DamagedScheduleTexts(e) ==
    {[e EXCEPT !.saved = TRUE, !.garbled = TRUE],
     [saved |-> TRUE, garbled |-> FALSE,
      doc |-> <<[enabled |-> TRUE, targetId |-> 3]>>, n |-> 45, nul |-> {}]}

DamagedTriggerTexts(e) ==
    {[e EXCEPT !.saved = TRUE, !.garbled = TRUE],
     [saved |-> TRUE, garbled |-> FALSE,
      doc |-> <<[enabled |-> TRUE, targetId |-> 4]>>, n |-> 44, nul |-> {}]}

\* the bytes of a store region change while the controller is off
StoreDamaged ==
    /\ \/ /\ eeprom' \in DamagedScheduleTexts(eeprom)
          /\ UNCHANGED triggerStore
       \/ /\ triggerStore' \in DamagedTriggerTexts(triggerStore)
          /\ UNCHANGED eeprom
    /\ log' = << >>
    /\ UNCHANGED <<clockVars, analogValues, analogLines,
                   inputLines, schedules, analogTriggers, interruptStore,
                   physicalOutputs, pinFaults, outputStates, inputStates,
                   directInputStates, sensors, now,
                   lastTimeCheck, interruptConfigs, inputStateChanged,
                   interruptsEnabled, prevInputStates, tickFires>>

BootInit == StoreInit

BootNext ==
    \/ \E rule \in StoreRules : UpdateSchedule(0, rule)
    \/ \E trigger \in BootTriggers :
          UpdateAnalogTrigger(MAX_ANALOG_TRIGGERS - 1, trigger)
    \/ StoreDamaged
    \/ Reboot

SpecBoot == BootInit /\ [][BootNext]_vars

\* the region holds text that no save wrote: bytes that are no JSON
\* document, or a document without the full array of count objects
StoreWasDamaged(e, count) == e.saved /\ (e.garbled \/ Len(e.doc) # count)

\* C17: when the persisted schedule or analog-trigger data is empty, corrupted
\* or fails to parse at startup, begin() completes and every schedule and
\* every analog trigger is disabled with its compiled-in default fields and
\* canonical name: after a restart over a store that is empty, or that was
\* damaged or cut after the last save, both arrays hold the constructor's
\* defaults.
C17_FallbackToDefaults ==
    StartedBy(log, "boot") =>
        /\ (~eeprom.saved \/ StoreWasDamaged(eeprom, MAX_SCHEDULES)
               \/ ~Parses(eeprom, EEPROM_SCHEDULE_WRITE_LIMIT))
              => schedules = DefaultSchedules
        /\ (~triggerStore.saved \/ StoreWasDamaged(triggerStore, MAX_ANALOG_TRIGGERS)
               \/ ~Parses(triggerStore, EEPROM_TRIGGER_WRITE_LIMIT))
              => analogTriggers = DefaultAnalogTriggers

(***************************************************************************)
(* Priority dispatcher with two configured inputs                          *)
(***************************************************************************)
SetupInputInterruptsAnyPriority(cfgs) == \E i \in Inputs : cfgs[i].enabled

\* InterruptManager::setupInputInterrupts: the value left in
\* _interruptsEnabled for the configuration cfgs
SetupInputInterrupts(cfgs) ==
    \E i \in Inputs : cfgs[i].enabled /\ cfgs[i].priority # INPUT_PRIORITY_NONE

\* InterruptManager::enableAllInterrupts
EnableAllInterrupts(enable) ==
    /\ interruptConfigs' =
          [i \in Inputs |-> [interruptConfigs[i] EXCEPT !.enabled = enable]]
    /\ inputStateChanged' = NoFlags
    /\ interruptStore' = SaveInterruptConfigs(interruptConfigs')
    /\ interruptsEnabled' = (enable /\ SetupInputInterrupts(interruptConfigs'))
    /\ log' = << >>
    /\ UNCHANGED <<clockVars, analogValues, analogLines,
                   inputLines, analogTriggers, triggerStore,
                   physicalOutputs, pinFaults,
                   schedules, outputStates, inputStates, directInputStates,
                   sensors, now, lastTimeCheck, prevInputStates, eeprom,
                   tickFires>>

\* inputs 0 and 1 enabled with priorities p0, p1 and the same trigger
IrqConfigs ==
    {[DefaultInterruptConfigs EXCEPT
        ![0] = [@ EXCEPT !.enabled = TRUE, !.priority = p0, !.triggerType = tr],
        ![1] = [@ EXCEPT !.enabled = TRUE, !.priority = p1, !.triggerType = tr]] :
        p0 \in {INPUT_PRIORITY_HIGH, INPUT_PRIORITY_MEDIUM, INPUT_PRIORITY_LOW},
        p1 \in {INPUT_PRIORITY_NONE, INPUT_PRIORITY_HIGH, INPUT_PRIORITY_MEDIUM,
                INPUT_PRIORITY_LOW},
        tr \in {INTERRUPT_TRIGGER_CHANGE, INTERRUPT_TRIGGER_HIGH_LEVEL}}

\* a Toggle rule on input 0 and a Toggle rule on input 1 or on both inputs
IrqRuleSets ==
    {RuleSet(Rule([enabled |-> TRUE, triggerType |-> 1, inputMask |-> 1,
                   inputStates |-> 1, logic |-> 1, action |-> 2,
                   targetId |-> 5]),
             Rule([enabled |-> TRUE, triggerType |-> 1, inputMask |-> m,
                   inputStates |-> 3, logic |-> 1, action |-> 2,
                   targetId |-> 6])) : m \in {2, 3}}

IrqInit ==
    /\ schedules \in IrqRuleSets
    /\ inputStates \in InputVectors
    /\ inputLines = inputStates
    /\ now = ClockAt(0, 8, 0, 2)
    /\ lastTimeCheck = now
    /\ outputStates = AllOff
    /\ physicalOutputs = AllOff
    /\ pinFaults = {}
    /\ directInputStates = NoDirectInputs
    /\ sensors = DefaultSensors
    /\ interruptConfigs \in IrqConfigs
    /\ inputStateChanged = NoFlags
    /\ interruptsEnabled = TRUE
    /\ prevInputStates = NoFlags
    /\ eeprom = EmptyEeprom
    /\ analogTriggers = DefaultAnalogTriggers
    /\ analogValues = NoAnalogValues
    /\ analogLines = NoAnalogValues
    /\ ClockIdle
    /\ triggerStore = EmptyEeprom
    /\ interruptStore = EmptyEeprom
    /\ tickFires = NoFires
    /\ log = << >>

IrqNext ==
    \/ ProcessInputInterrupts
    \/ LoopReadInputs
    \/ \E enable \in BOOLEAN : EnableAllInterrupts(enable)

SpecIrq == IrqInit /\ [][IrqNext]_vars

\* positions of the trace at which an input is handed to the evaluator
InputEvents(l) == {k \in 1 .. Len(l) : IsEvent(l[k], "input")}

PriorityAt(l, k) == interruptConfigs[l[k][2]].priority

\* every relay staged before position b has been followed by a commit
\* before b
CommittedBefore(l, b) ==
    \A k \in 1 .. (b - 1) :
        IsEvent(l[k], "set") =>
            \E w \in (k + 1) .. (b - 1) : IsEvent(l[w], "write")

\* C9: in one processInputInterrupts pass the flagged inputs are handled High
\* first, then Medium, then Low, and when the evaluation for an input of lower
\* priority begins every relay action caused by the inputs before it has been
\* committed with writeOutputs.
C9_HighCommittedBeforeLow ==
    StartedBy(log, "irq") =>
        \A a \in InputEvents(log), b \in InputEvents(log) :
            a < b =>
                /\ PriorityAt(log, a) <= PriorityAt(log, b)
                /\ CommittedBefore(log, b)

\* a high-priority and a low-priority input were handled in the same pass and
\* the high-priority one staged a relay
C9_Witness ==
    /\ StartedBy(log, "irq")
    /\ \E a \in InputEvents(log), b \in InputEvents(log) :
          /\ a < b
          /\ PriorityAt(log, a) = INPUT_PRIORITY_HIGH
          /\ PriorityAt(log, b) = INPUT_PRIORITY_LOW
          /\ \E k \in (a + 1) .. (b - 1) : IsEvent(log[k], "set")

(***************************************************************************)
(* Dispatcher called repeatedly: the trace keeps consecutive dispatches    *)
(***************************************************************************)
ToggleRules ==
    {Rule([enabled |-> TRUE, action |-> 2, targetType |-> tt[1],
           targetId |-> tt[2], targetIdLow |-> 7]) :
        tt \in {<<0, 0>>, <<0, 5>>, <<0, 15>>, <<0, 16>>, <<0, 261>>,
                <<1, 0>>, <<1, 5>>, <<1, 32769>>, <<1, 65535>>}}

\* a rule that switches relay 5 (primary) or relay 15 (low) on
OnRule ==
    Rule([enabled |-> TRUE, action |-> 1, targetId |-> 5, targetIdLow |-> 15])

DispatchPositions(l) == {k \in 1 .. Len(l) : IsEvent(l[k], "dispatch")}

\* a call of executeScheduleAction(scheduleIndex, targetId) with one of the
\* schedule's two targets
DispatchStep(scheduleIndex, low) ==
    /\ Cardinality(DispatchPositions(log)) < MaxDispatches
    /\ Commit(ExecuteScheduleAction(
                [out |-> outputStates, phys |-> physicalOutputs, log |-> log], scheduleIndex,
                IF low THEN schedules[scheduleIndex].targetIdLow
                ELSE schedules[scheduleIndex].targetId))
    /\ UNCHANGED <<clockVars, analogValues, analogLines,
                   inputLines, analogTriggers, triggerStore, interruptStore,
                   pinFaults, schedules, inputStates, directInputStates,
                   sensors, now,
                   lastTimeCheck, interruptConfigs, inputStateChanged,
                   interruptsEnabled, prevInputStates, eeprom, tickFires>>

ToggleInit ==
    /\ schedules \in {RuleSet(r0, OnRule) : r0 \in ToggleRules}
    /\ inputStates = NoFlags
    /\ inputLines = inputStates
    /\ now = ClockAt(0, 8, 0, 2)
    /\ lastTimeCheck = now
    /\ Quiescent

ToggleNext ==
    \E scheduleIndex \in {0, MAX_SCHEDULES - 1}, low \in BOOLEAN :
        DispatchStep(scheduleIndex, low)

SpecToggle == ToggleInit /\ [][ToggleNext]_vars

\* the last two dispatches of the trace, when they are Toggle dispatches of
\* the same schedule on the same target
LastTwoToggles(l) ==
    {p \in DispatchPositions(l) \X DispatchPositions(l) :
        /\ p[1] < p[2]
        /\ \A k \in DispatchPositions(l) : k <= p[1] \/ k = p[2]
        /\ l[p[1]][2] = l[p[2]][2]
        /\ l[p[1]][3] = l[p[2]][3]
        /\ schedules[l[p[1]][2]].action = 2}

\* C10: two consecutive Toggle dispatches on the same Single or Bitmask target
\* leave every output in the logical state it had before the first of them.
C10_DoubleToggleRestores ==
    \A p \in LastTwoToggles(log) : outputStates = log[p[1]][4]

\* the second of two consecutive Toggle dispatches has run and the first one
\* had changed an output
C10_Witness ==
    \E p \in LastTwoToggles(log) : log[p[2]][4] # log[p[1]][4]

(***************************************************************************)
(* Schedules switched off and on while every evaluation path runs          *)
(***************************************************************************)
\* a call of the public executeSchedule(scheduleIndex)
ExecuteScheduleCall(scheduleIndex) ==
    /\ Commit(ExecuteSchedule(
                [out |-> outputStates, phys |-> physicalOutputs,
                 log |-> <<<<"executeSchedule", scheduleIndex>>>>],
                scheduleIndex))
    /\ UNCHANGED <<clockVars, analogValues, analogLines,
                   inputLines, analogTriggers, triggerStore, interruptStore,
                   pinFaults, schedules, inputStates, directInputStates,
                   sensors, now,
                   lastTimeCheck, interruptConfigs, inputStateChanged,
                   interruptsEnabled, prevInputStates, eeprom, tickFires>>

\* a call of the public executeScheduleAction(scheduleIndex, targetId) with
\* one of the schedule's two targets
ExecuteScheduleActionCall(scheduleIndex, low) ==
    /\ Commit(ExecuteScheduleAction(
                [out |-> outputStates, phys |-> physicalOutputs,
                 log |-> <<<<"executeScheduleAction", scheduleIndex>>>>],
                scheduleIndex,
                IF low THEN schedules[scheduleIndex].targetIdLow
                ELSE schedules[scheduleIndex].targetId))
    /\ UNCHANGED <<clockVars, analogValues, analogLines,
                   inputLines, analogTriggers, triggerStore, interruptStore,
                   pinFaults, schedules, inputStates, directInputStates,
                   sensors, now,
                   lastTimeCheck, interruptConfigs, inputStateChanged,
                   interruptsEnabled, prevInputStates, eeprom, tickFires>>

\* rules that match on Sunday 08:00 with input 0 high
MatchingRules ==
    {Rule([enabled |-> TRUE, triggerType |-> ty, days |-> 1, hour |-> 8,
           minute |-> 0, inputMask |-> 1, inputStates |-> 1, logic |-> 0,
           action |-> 1, targetType |-> 0, targetId |-> 5, targetIdLow |-> 7]) :
        ty \in {0, 1, 2}}

\* input 0 is held high
InputZeroHigh == [i \in Inputs |-> i = 0]

DisableInit ==
    /\ schedules \in {RuleSet(r0, DefaultSchedule(MAX_SCHEDULES - 1)) :
                        r0 \in MatchingRules}
    /\ inputStates = InputZeroHigh
    /\ inputLines = inputStates
    /\ now = ClockAt(0, 7, 59, 57)
    /\ lastTimeCheck = now
    /\ outputStates = AllOff
    /\ physicalOutputs = AllOff
    /\ pinFaults = {}
    /\ directInputStates = NoDirectInputs
    /\ sensors = DefaultSensors
    /\ interruptConfigs = LevelConfigs
    /\ inputStateChanged = NoFlags
    /\ interruptsEnabled = TRUE
    /\ prevInputStates = NoFlags
    /\ eeprom = EmptyEeprom
    /\ analogTriggers = DefaultAnalogTriggers
    /\ analogValues = NoAnalogValues
    /\ analogLines = NoAnalogValues
    /\ ClockIdle
    /\ triggerStore = EmptyEeprom
    /\ interruptStore = EmptyEeprom
    /\ tickFires = NoFires
    /\ log = << >>

DisableNext ==
    \/ TimePasses
    \/ LoopTimeCheck
    \/ EvaluateRequest
    \/ ProcessInputInterrupts
    \/ \E enabled \in BOOLEAN : SetScheduleEnabled(0, enabled)
    \/ ExecuteScheduleCall(0)
    \/ \E low \in BOOLEAN : ExecuteScheduleActionCall(0, low)

SpecDisable == DisableInit /\ [][DisableNext]_vars

\* C11: a schedule with enabled = false changes no output through the time
\* tick, the full scan, the single-input pass or a direct execute call: no
\* handler dispatches it or stages a relay for it, whatever its other fields
\* hold and also after it was disabled or deleted.
C11_DisabledNeverActs ==
    \A i \in ScheduleIds :
        ~schedules[i].enabled =>
            Dispatches(log, i) = {} /\ RelaysSetBy(log, i) = {}

\* a rule that switched relay 5 on has been disabled and a handler has run
\* since, at a time and input level at which the rule's condition holds
C11_Witness ==
    /\ ~schedules[0].enabled
    /\ outputStates[5]
    /\ inputStates[0]
    /\ Hour(now) = 8 /\ Minute(now) = 0 /\ Second(now) < TIME_WINDOW
    /\ Len(log) > 0 /\ ~IsEvent(log[1], "setEnabled")

\* C12: within one processInputInterrupts pass no input is handed to the
\* evaluator more than once, and after the pass no enabled input of priority
\* High, Medium or Low still has its sticky flag set.
C12_ConsumedOnce ==
    StartedBy(log, "irq") =>
        /\ \A a \in InputEvents(log), b \in InputEvents(log) :
              log[a][2] = log[b][2] => a = b
        /\ \A i \in Inputs :
              (/\ interruptConfigs[i].enabled
               /\ interruptConfigs[i].priority \in
                     {INPUT_PRIORITY_HIGH, INPUT_PRIORITY_MEDIUM,
                      INPUT_PRIORITY_LOW}) => ~inputStateChanged[i]

\* a pass has consumed two flagged inputs and left the flag of nothing but a
\* priority-None input behind
C12_Witness ==
    /\ StartedBy(log, "irq")
    /\ Cardinality(InputEvents(log)) >= 2
    /\ \A i \in Inputs : ~inputStateChanged[i]

\* the end of the firing that starts at dispatch position k: the position of
\* the next dispatch, or one past the end of the trace
FiringEnd(l, k) ==
    LET later == {j \in DispatchPositions(l) : j > k}
    IN  IF later = {} THEN Len(l) + 1
        ELSE CHOOSE j \in later : \A m \in later : j <= m

\* C13: every firing of executeScheduleAction stages all its output mutations
\* in the in-memory vector and then commits once with writeOutputs: up to its
\* single write the trace of the firing holds staged mutations only, and
\* after that write nothing more is staged or written by the firing.
C13_StageThenCommitOnce ==
    \A k \in DispatchPositions(log) :
        \E w \in (k + 1) .. (FiringEnd(log, k) - 1) :
            /\ IsEvent(log[w], "write")
            /\ \A j \in (k + 1) .. (w - 1) : IsEvent(log[j], "set")
            /\ \A j \in (w + 1) .. (FiringEnd(log, k) - 1) :
                  ~IsEvent(log[j], "set") /\ ~IsEvent(log[j], "write")

\* a Bitmask firing has staged several relays before its commit
C13_Witness ==
    \E k \in DispatchPositions(log) :
        /\ k + 3 <= Len(log)
        /\ IsEvent(log[k + 1], "set")
        /\ IsEvent(log[k + 2], "set")
        /\ log[k + 1][2] # log[k + 2][2]
        /\ \E w \in (k + 3) .. Len(log) : IsEvent(log[w], "write")

(***************************************************************************)
(* Dispatches while output pins fail                                        *)
(***************************************************************************)
\* the pins of the expander of outputs 1-8 and of outputs 9-16
PinsIC4 == 0 .. 7
PinsIC3 == 8 .. 15

\* the writes to some pins start or stop failing
PinFaultChanges ==
    /\ pinFaults' \in {{}, PinsIC4, PinsIC3, {8}}
    /\ pinFaults' # pinFaults
    /\ UNCHANGED <<clockVars, analogValues, analogLines,
                   inputLines, analogTriggers, triggerStore, interruptStore,
                   schedules, outputStates, inputStates, directInputStates,
                   sensors, now, lastTimeCheck, interruptConfigs,
                   inputStateChanged, interruptsEnabled, prevInputStates,
                   eeprom, tickFires, log, physicalOutputs>>

\* rules on relays of both expanders: primary target relays 1 and 9 as a
\* Bitmask or relay 9 alone, low target 3
FaultRules ==
    {Rule([enabled |-> TRUE, action |-> a, targetType |-> tt[1],
           targetId |-> tt[2], targetIdLow |-> 3]) :
        a \in {1, 2}, tt \in {<<1, 257>>, <<0, 8>>}}

FaultInit ==
    /\ schedules \in {RuleSet(r0, DefaultSchedule(MAX_SCHEDULES - 1)) :
                        r0 \in FaultRules}
    /\ inputStates = NoFlags
    /\ inputLines = inputStates
    /\ now = ClockAt(0, 8, 0, 2)
    /\ lastTimeCheck = now
    /\ Quiescent

FaultNext ==
    \/ PinFaultChanges
    \/ \E low \in BOOLEAN : DispatchStep(0, low)

SpecFault == FaultInit /\ [][FaultNext]_vars

\* the position of the write of the firing that starts at dispatch position k
WriteOf(l, k) ==
    CHOOSE w \in (k + 1) .. Len(l) :
        IsEvent(l[w], "write") /\ \A j \in (k + 1) .. (w - 1) : ~IsEvent(l[j], "write")

LastDispatch(l) ==
    CHOOSE k \in DispatchPositions(l) : \A j \in DispatchPositions(l) : j <= k

\* C14: when the write of an action dispatch fails, the physical state of all
\* 16 relays is what it was before the dispatch.
C14_FailedWriteLeavesRelays ==
    DispatchPositions(log) # {} =>
        LET k == LastDispatch(log)
        IN  ~log[WriteOf(log, k)][2] => physicalOutputs = log[k][5]

\* the vector staged by the firing at dispatch position k whose write is at
\* w: the last value set for a relay, else the relay's value before the firing
StagedBy(l, k, w) ==
    [r \in Outputs |->
        LET sets == {j \in (k + 1) .. (w - 1) :
                        IsEvent(l[j], "set") /\ l[j][2] = r}
        IN  IF sets = {} THEN l[k][4][r]
            ELSE l[CHOOSE j \in sets : \A m \in sets : m <= j][3]]

C16_SingleTargetRange ==
    DispatchPositions(log) # {} =>
        LET k == LastDispatch(log)
        IN  (schedules[log[k][2]].targetType = 0 /\ log[k][3] >= NUM_OUTPUTS)
                => outputStates = log[k][4]

(***************************************************************************)
(* Requests that name a rule or an input by index                          *)
(***************************************************************************)
ValidInterruptIndexInclusive(index) == index >= 0 /\ index <= NUM_INPUTS

\* the index test of updateInterruptConfig and enableInterrupt
ValidInterruptIndex(index) == index >= 0 /\ index < NUM_INPUTS

\* setupInputInterrupts run on the configuration cfgs
RunSetup(cfgs) ==
    /\ inputStateChanged' = NoFlags
    /\ interruptsEnabled' = SetupInputInterrupts(cfgs)

\* InterruptManager::updateInterruptConfig
UpdateInterruptConfig(index, config) ==
    /\ IF ValidInterruptIndex(index)
       THEN /\ interruptConfigs' = [interruptConfigs EXCEPT ![index] = config]
            /\ interruptStore' = SaveInterruptConfigs(interruptConfigs')
            /\ IF interruptsEnabled THEN RunSetup(interruptConfigs')
               ELSE UNCHANGED <<inputLines, inputStateChanged, interruptsEnabled>>
            /\ log' = <<<<"updateInterruptConfig", index>>>>
       ELSE /\ UNCHANGED <<inputLines, interruptConfigs, interruptStore,
                           inputStateChanged, interruptsEnabled>>
            /\ log' = <<<<"updateInterruptConfig", index>>,
                        <<"return", FALSE>>>>
    /\ UNCHANGED <<clockVars, analogValues, analogLines,
                   inputLines, schedules, analogTriggers, eeprom, triggerStore,
                   physicalOutputs, pinFaults, outputStates, inputStates,
                   directInputStates, sensors, now, lastTimeCheck,
                   prevInputStates, tickFires>>

\* InterruptManager::enableInterrupt
EnableInterrupt(index, enable) ==
    /\ IF ValidInterruptIndex(index)
       THEN /\ interruptConfigs' =
                  [interruptConfigs EXCEPT ![index].enabled = enable]
            /\ interruptStore' = SaveInterruptConfigs(interruptConfigs')
            /\ LET anyEnabled == \E i \in Inputs : interruptConfigs'[i].enabled
               IN  IF anyEnabled /\ interruptsEnabled
                   THEN RunSetup(interruptConfigs')
                   ELSE IF ~anyEnabled
                   THEN /\ inputStateChanged' = NoFlags
                        /\ interruptsEnabled' = FALSE
                   ELSE UNCHANGED <<inputLines, inputStateChanged, interruptsEnabled>>
            /\ log' = <<<<"enableInterrupt", index>>>>
       ELSE /\ UNCHANGED <<inputLines, interruptConfigs, interruptStore,
                           inputStateChanged, interruptsEnabled>>
            /\ log' = <<<<"enableInterrupt", index>>, <<"return", FALSE>>>>
    /\ UNCHANGED <<clockVars, analogValues, analogLines,
                   inputLines, schedules, analogTriggers, eeprom, triggerStore,
                   physicalOutputs, pinFaults, outputStates, inputStates,
                   directInputStates, sensors, now, lastTimeCheck,
                   prevInputStates, tickFires>>

\* indexes a request can carry: -1 stands for a request without an id
ScheduleIndexes == {-1, 0, MAX_SCHEDULES}
TriggerIndexes == {-1, 0, MAX_ANALOG_TRIGGERS}
InterruptIndexes == {-1, 0, NUM_INPUTS}

RequestConfigs ==
    {[enabled |-> TRUE, priority |-> INPUT_PRIORITY_HIGH, inputIndex |-> 0,
      triggerType |-> INTERRUPT_TRIGGER_RISING, name |-> "Door"]}

RequestInit ==
    /\ schedules = RuleSet(OnRule, DefaultSchedule(MAX_SCHEDULES - 1))
    /\ inputStates = NoFlags
    /\ inputLines = inputStates
    /\ now = ClockAt(0, 8, 0, 2)
    /\ lastTimeCheck = now
    /\ Quiescent

RequestNext ==
    \/ \E id \in ScheduleIndexes : UpdateSchedule(id, OnRule)
    \/ \E id \in TriggerIndexes, trigger \in BootTriggers :
          UpdateAnalogTrigger(id, trigger)
    \/ \E index \in InterruptIndexes, config \in RequestConfigs :
          UpdateInterruptConfig(index, config)
    \/ \E index \in InterruptIndexes, enable \in BOOLEAN :
          EnableInterrupt(index, enable)
    \/ \E index \in ScheduleIndexes : ExecuteScheduleCall(index)
    \/ \E enable \in BOOLEAN : EnableAllInterrupts(enable)

SpecRequest == RequestInit /\ [][RequestNext]_vars

\* the handler that just ran is one of the five index-taking operations and
\* its index names no slot
RejectedCall(l) ==
    /\ l # << >>
    /\ \/ /\ l[1][1] \in {"updateSchedule", "executeSchedule"}
          /\ l[1][2] \notin ScheduleIds
       \/ /\ l[1][1] = "updateAnalogTrigger"
          /\ l[1][2] \notin TriggerIds
       \/ /\ l[1][1] \in {"updateInterruptConfig", "enableInterrupt"}
          /\ l[1][2] \notin Inputs

\* C18: updateSchedule, updateAnalogTrigger, updateInterruptConfig,
\* enableInterrupt and executeSchedule called with a missing or out-of-range
\* index report failure (or do nothing) and leave every rule, every interrupt
\* config, the output vector and the persisted stores unchanged.
C18_BadIndexNoOp ==
    [][RejectedCall(log') =>
          /\ UNCHANGED <<clockVars, analogValues, analogLines,
                         inputLines, schedules, analogTriggers, interruptConfigs,
                         outputStates, physicalOutputs, eeprom, triggerStore,
                         interruptStore, inputStateChanged, interruptsEnabled>>
          /\ \/ log'[1][1] = "executeSchedule" /\ Len(log') = 1
             \/ log'[Len(log')] = <<"return", FALSE>>]_vars

\* an out-of-range enableInterrupt arrived while rules, triggers, configs and
\* stores all hold something other than their defaults
C18_Witness ==
    /\ RejectedCall(log)
    /\ log[1] = <<"enableInterrupt", NUM_INPUTS>>
    /\ interruptConfigs[0].enabled /\ interruptsEnabled
    /\ interruptStore.saved /\ eeprom.saved /\ triggerStore.saved
    /\ outputStates # AllOff

(***************************************************************************)
(* The classifier over all five trigger types                              *)
(***************************************************************************)
TriggerTypes ==
    {INTERRUPT_TRIGGER_RISING, INTERRUPT_TRIGGER_FALLING,
     INTERRUPT_TRIGGER_CHANGE, INTERRUPT_TRIGGER_HIGH_LEVEL,
     INTERRUPT_TRIGGER_LOW_LEVEL}

\* input 0 enabled, input 1 disabled, both with trigger type tr; input 0 is
\* dispatched at priority p or polled (priority None)
ClassifyConfigs ==
    {[DefaultInterruptConfigs EXCEPT
        ![0] = [@ EXCEPT !.enabled = TRUE, !.priority = p, !.triggerType = tr],
        ![1] = [@ EXCEPT !.priority = INPUT_PRIORITY_HIGH,
                         !.triggerType = tr]] :
        p \in {INPUT_PRIORITY_HIGH, INPUT_PRIORITY_NONE}, tr \in TriggerTypes}

ClassifyInit ==
    /\ schedules = RuleSet(Rule([enabled |-> TRUE, triggerType |-> 1,
                                 inputMask |-> 1, inputStates |-> 1,
                                 logic |-> 1, action |-> 2, targetId |-> 5]),
                           DefaultSchedule(MAX_SCHEDULES - 1))
    /\ inputStates \in InputVectors
    /\ inputLines = inputStates
    /\ now = ClockAt(0, 8, 0, 2)
    /\ lastTimeCheck = now
    /\ outputStates = AllOff
    /\ physicalOutputs = AllOff
    /\ pinFaults = {}
    /\ directInputStates = NoDirectInputs
    /\ sensors = DefaultSensors
    /\ interruptConfigs \in ClassifyConfigs
    /\ inputStateChanged = NoFlags
    /\ interruptsEnabled \in {FALSE, SetupInputInterrupts(interruptConfigs)}
    /\ prevInputStates = NoFlags
    /\ eeprom = EmptyEeprom
    /\ analogTriggers = DefaultAnalogTriggers
    /\ analogValues = NoAnalogValues
    /\ analogLines = NoAnalogValues
    /\ ClockIdle
    /\ triggerStore = EmptyEeprom
    /\ interruptStore = EmptyEeprom
    /\ tickFires = NoFires
    /\ log = << >>

ClassifyNext ==
    \/ ProcessInputInterrupts
    \/ LoopReadInputs
    \/ \E index \in {0, 1}, enable \in BOOLEAN : EnableInterrupt(index, enable)
    \/ \E enable \in BOOLEAN : EnableAllInterrupts(enable)

SpecClassify == ClassifyInit /\ [][ClassifyNext]_vars

\* the predicate of trigger type t over (previous sample, current sample)
TriggerHolds(t, prev, cur) ==
    \/ t = INTERRUPT_TRIGGER_RISING /\ prev = FALSE /\ cur = TRUE
    \/ t = INTERRUPT_TRIGGER_FALLING /\ prev = TRUE /\ cur = FALSE
    \/ t = INTERRUPT_TRIGGER_CHANGE /\ prev # cur
    \/ t = INTERRUPT_TRIGGER_HIGH_LEVEL /\ cur = TRUE
    \/ t = INTERRUPT_TRIGGER_LOW_LEVEL /\ cur = FALSE

\* input i was handed to the single-input evaluator by the handler of trace l
HandedOver(l, i) == \E k \in InputEvents(l) : l[k][2] = i

\* C19: in each sample the classifier flags input i for dispatch if and only
\* if its config is enabled and the predicate of its trigger type holds over
\* (previous sample, current sample): an input that carries no flag from an
\* earlier sample is handed over by the pass, or leaves it with its flag set,
\* exactly in that case.
C19_FlaggedIff ==
    [][StartedBy(log', "irq") =>
          \A i \in Inputs :
              ~inputStateChanged[i] =>
                  ((HandedOver(log', i) \/ inputStateChanged'[i])
                     <=> (/\ interruptConfigs[i].enabled
                          /\ TriggerHolds(interruptConfigs[i].triggerType,
                                          prevInputStates[i],
                                          inputStates[i])))]_vars

\* a pass has handed over a HighLevel input that was already high in the
\* sample before, while the disabled input next to it, high as well, was not
C19_Witness ==
    /\ StartedBy(log, "irq")
    /\ interruptConfigs[0].triggerType = INTERRUPT_TRIGGER_HIGH_LEVEL
    /\ HandedOver(log, 0)
    /\ outputStates[5] = FALSE
    /\ ~interruptConfigs[1].enabled /\ inputStates[1] /\ ~HandedOver(log, 1)

(***************************************************************************)
(* The sampler and the physical input lines                                *)
(***************************************************************************)
\* the level of an expander line changes: the lines take any level at any
\* time, whatever the controller is doing
LineChanges ==
    /\ inputLines' \in InputVectors \ {inputLines}
    /\ log' = << >>
    /\ UNCHANGED <<clockVars, analogValues, analogLines,
                   schedules, outputStates, inputStates, directInputStates,
                   sensors, now, lastTimeCheck, interruptConfigs,
                   inputStateChanged, interruptsEnabled, prevInputStates,
                   eeprom, tickFires, physicalOutputs, pinFaults,
                   analogTriggers, triggerStore, interruptStore>>

SampleInit == ClassifyInit

SampleNext ==
    \/ ProcessInputInterrupts
    \/ LoopReadInputs
    \/ LineChanges
    \/ \E enable \in BOOLEAN : EnableAllInterrupts(enable)

SpecSample == SampleInit /\ [][SampleNext]_vars

\* input i is dispatched on both edges at priority High, Medium or Low
EdgeDispatched(i) ==
    /\ interruptConfigs[i].enabled
    /\ interruptConfigs[i].triggerType = INTERRUPT_TRIGGER_CHANGE
    /\ interruptConfigs[i].priority \in
          {INPUT_PRIORITY_HIGH, INPUT_PRIORITY_MEDIUM, INPUT_PRIORITY_LOW}

\* C20: while interrupt dispatch is active, every call of the sampler observes
\* the current physical input lines, so no edge is missed: a pass that runs
\* while a line with an enabled Change config of priority High, Medium or Low
\* is at another level than in the previous sample takes that level as its
\* sample and hands the input to the evaluator.
C20_ChangedLineHandedOver ==
    [][StartedBy(log', "irq") =>
          \A i \in Inputs :
              (EdgeDispatched(i) /\ inputLines[i] # prevInputStates[i]) =>
                  /\ prevInputStates'[i] = inputLines[i]
                  /\ HandedOver(log', i)]_vars

\* C21: an input whose config has priority None never gets its sticky dispatch
\* flag set by processInputInterrupts and is never handed to the evaluator by
\* the High / Medium / Low passes, even when its config is enabled.
C21_NoneNeverFlagged ==
    \A i \in Inputs :
        interruptConfigs[i].priority = INPUT_PRIORITY_NONE =>
            /\ ~inputStateChanged[i]
            /\ StartedBy(log, "irq") => ~HandedOver(log, i)

(***************************************************************************)
(* Poll path for the inputs kept out of interrupt dispatch                 *)
(***************************************************************************)
\* the first input at or after i that the poll loop hands over: priority
\* None and a state other than oldState, which the code fixes at false
NextPolled(i) ==
    LET P == {j \in Inputs : /\ j >= i
                             /\ interruptConfigs[j].priority
                                   = INPUT_PRIORITY_NONE
                             /\ inputStates[j] # FALSE}
    IN  IF P = {} THEN NUM_INPUTS
        ELSE CHOOSE j \in P : \A k \in P : j <= k

\* the polling loop of pollNonInterruptInputs
RECURSIVE PollFrom(_, _)
PollFrom(hw, i) ==
    LET j == NextPolled(i)
    IN  IF j >= NUM_INPUTS THEN hw
        ELSE PollFrom(ProcessInputChange(hw, j, inputStates[j]), j + 1)

\* InterruptManager::pollNonInterruptInputs, once INPUT_READ_INTERVAL has
\* passed since the previous poll
PollNonInterruptInputs ==
    /\ Commit(PollFrom([out |-> outputStates, phys |-> physicalOutputs,
                        log |-> <<<<"poll">>>>], 0))
    /\ UNCHANGED <<clockVars, analogValues, analogLines,
                   inputLines, analogTriggers, triggerStore, interruptStore,
                   pinFaults, schedules, inputStates, directInputStates,
                   sensors, now, lastTimeCheck, interruptConfigs,
                   inputStateChanged, interruptsEnabled, prevInputStates,
                   eeprom, tickFires>>

PollInit == ClassifyInit

PollNext ==
    \/ PollNonInterruptInputs
    \/ ProcessInputInterrupts
    \/ LoopReadInputs
    \/ \E enable \in BOOLEAN : EnableAllInterrupts(enable)

SpecPoll == PollInit /\ [][PollNext]_vars

\* C22: on every poll tick each input whose priority is None, and no other
\* input, is handed to the single-input evaluator with its current state,
\* unconditionally: whether it is high or low, whether or not it changed and
\* whether or not its config is enabled.
C22_PollHandsEveryNoneInput ==
    StartedBy(log, "poll") =>
        \A i \in Inputs :
            (interruptConfigs[i].priority = INPUT_PRIORITY_NONE)
              <=> (\E k \in InputEvents(log) :
                      log[k] = <<"input", i, inputStates[i]>>)

(***************************************************************************)
(* Full scan over Input and Combined rules with two targets                *)
(***************************************************************************)
\* Input rules, and Combined rules gated on Sunday 08:00 or on Sunday 09:00
DualRules ==
    {Rule([enabled |-> TRUE, triggerType |-> ty[1], days |-> 1,
           hour |-> ty[2], minute |-> 0, inputMask |-> m, inputStates |-> st,
           logic |-> lg, action |-> 1, targetType |-> 0,
           targetId |-> t[1], targetIdLow |-> t[2]]) :
        ty \in {<<1, 0>>, <<2, 8>>, <<2, 9>>}, m \in {1, 3}, st \in 0 .. 3,
        lg \in {0, 1}, t \in {<<5, 7>>, <<0, 7>>, <<5, 0>>}}

DualInit ==
    /\ schedules \in {RuleSet(r0, DefaultSchedule(MAX_SCHEDULES - 1)) :
                         r0 \in DualRules}
    /\ inputStates \in InputVectors
    /\ inputLines = inputStates
    /\ now = ClockAt(0, 8, 0, 30)
    /\ lastTimeCheck = now
    /\ Quiescent

DualNext == LoopReadInputs \/ EvaluateRequest

SpecDual == DualInit /\ [][DualNext]_vars

\* schedule i is an enabled Input or Combined rule that matches now: its mask
\* is not empty, its inputs satisfy its logic and, for Combined, weekday,
\* hour and minute equal the clock
ScanMatches(i) ==
    LET s == schedules[i]
    IN  /\ s.enabled /\ s.triggerType \in {1, 2} /\ s.inputMask # 0
        /\ s.triggerType = 2 =>
              /\ Bit(s.days, DayOfTheWeek(now))
              /\ s.hour = Hour(now) /\ s.minute = Minute(now)
        /\ IF s.logic = 0
           THEN \A b \in MaskedInputs(i) : InputEqualsDesired(i, b)
           ELSE \E b \in MaskedInputs(i) : InputEqualsDesired(i, b)

\* the targets of the dispatches of schedule i, in the order they were made
TargetsInOrder(l, i) ==
    LET IsMine(e) == IsEvent(e, "dispatch") /\ e[2] = i
        mine == SelectSeq(l, IsMine)
    IN  [k \in 1 .. Len(mine) |-> mine[k][3]]

\* C23: in the full scan, when an Input or Combined schedule matches, the
\* action is dispatched to targetId iff some masked input is currently true
\* and targetId > 0, and to targetIdLow iff some masked input is currently
\* false and targetIdLow > 0; with masked inputs in mixed states both
\* dispatches happen in the same pass, targetId first.
C23_DualDispatch ==
    StartedBy(log, "fullScan") =>
        \A i \in ScheduleIds : ScanMatches(i) =>
            LET s == schedules[i]
                toHigh == /\ \E b \in MaskedInputs(i) : inputStates[b]
                          /\ s.targetId > 0
                toLow == /\ \E b \in MaskedInputs(i) : ~inputStates[b]
                         /\ s.targetIdLow > 0
            IN  TargetsInOrder(log, i) =
                    (IF toHigh THEN <<s.targetId>> ELSE << >>)
                    \o (IF toLow THEN <<s.targetIdLow>> ELSE << >>)

\* a scan at the gate's minute has dispatched a matching Combined OR rule
\* with one masked input high and one low to both targets, targetId first
C23_Witness ==
    /\ StartedBy(log, "fullScan")
    /\ schedules[0].triggerType = 2 /\ ScanMatches(0)
    /\ inputStates[0] /\ ~inputStates[1]
    /\ schedules[0].inputMask = 3
    /\ TargetsInOrder(log, 0) = <<5, 7>>
    /\ outputStates[5] /\ outputStates[7]

\* C24: in the full scan an enabled Sensor schedule on a valid, non-digital
\* sensor dispatches its action to targetId (when targetId > 0) if the sensor
\* condition is true, and to targetIdLow (when targetIdLow > 0) if the sensor
\* condition is false.
C24_SensorDualTarget ==
    StartedBy(log, "fullScan") =>
        \A i \in ScheduleIds :
            LET s == schedules[i]
            IN  (/\ s.enabled /\ s.triggerType = 3 /\ s.sensorIndex < 3
                 /\ sensors[s.sensorIndex].sensorType # SENSOR_TYPE_DIGITAL) =>
                    IF SensorConditionMet(s)
                    THEN s.targetId > 0 =>
                            s.targetId \in DispatchTargets(log, i)
                    ELSE s.targetIdLow > 0 =>
                            s.targetIdLow \in DispatchTargets(log, i)

(***************************************************************************)
(* Single-input pass over rules of all four trigger types                  *)
(***************************************************************************)
\* rules of every trigger type; Time and Combined rules are set on Sunday
\* 08:00 or 09:00, Sensor rules watch HT2
SingleRules ==
    {Rule([enabled |-> TRUE, triggerType |-> ty, days |-> 1, hour |-> h,
           minute |-> 0, inputMask |-> m, inputStates |-> st, logic |-> lg,
           sensorIndex |-> 1, sensorTriggerType |-> 0, sensorCondition |-> 1,
           sensorThreshold |-> 100, action |-> 1, targetType |-> 0,
           targetId |-> 5, targetIdLow |-> 7]) :
        ty \in 0 .. 3, h \in {8, 9}, m \in {1, 2, 3}, st \in 0 .. 3,
        lg \in {0, 1}}

\* input 0 dispatched on both edges at high priority, input 1 at low priority
\* while it is held high
SingleConfigs ==
    [DefaultInterruptConfigs EXCEPT
        ![0] = [@ EXCEPT !.enabled = TRUE, !.priority = INPUT_PRIORITY_HIGH,
                         !.triggerType = INTERRUPT_TRIGGER_CHANGE],
        ![1] = [@ EXCEPT !.enabled = TRUE, !.priority = INPUT_PRIORITY_LOW,
                         !.triggerType = INTERRUPT_TRIGGER_HIGH_LEVEL]]

SingleInit ==
    /\ schedules \in {RuleSet(r0, DefaultSchedule(MAX_SCHEDULES - 1)) :
                         r0 \in SingleRules}
    /\ inputStates \in InputVectors
    /\ inputLines = inputStates
    /\ now = ClockAt(0, 8, 0, 30)
    /\ lastTimeCheck = now
    /\ outputStates = AllOff
    /\ physicalOutputs = AllOff
    /\ pinFaults = {}
    /\ directInputStates = NoDirectInputs
    /\ sensors = DefaultSensors
    /\ interruptConfigs = SingleConfigs
    /\ inputStateChanged = NoFlags
    /\ interruptsEnabled = TRUE
    /\ prevInputStates = NoFlags
    /\ eeprom = EmptyEeprom
    /\ analogTriggers = DefaultAnalogTriggers
    /\ analogValues = NoAnalogValues
    /\ analogLines = NoAnalogValues
    /\ ClockIdle
    /\ triggerStore = EmptyEeprom
    /\ interruptStore = EmptyEeprom
    /\ tickFires = NoFires
    /\ log = << >>

SingleNext ==
    \/ ProcessInputInterrupts
    \/ LoopReadInputs
    \/ \E enable \in BOOLEAN : EnableAllInterrupts(enable)

SpecSingle == SingleInit /\ [][SingleNext]_vars

\* the changed input whose single-input pass made the event at position k
\* (-1: none)
RECURSIVE PassOf(_, _)
PassOf(l, k) ==
    IF k < 1 THEN -1
    ELSE IF IsEvent(l[k], "input") THEN l[k][2]
    ELSE PassOf(l, k - 1)

\* schedule i is an enabled Input or Combined rule whose mask contains input
\* k, whose inputs satisfy its logic and, for Combined, whose weekday, hour
\* and minute equal the clock
SingleMatches(i, k) ==
    LET s == schedules[i]
    IN  /\ s.enabled /\ s.triggerType \in {1, 2}
        /\ k \in MaskedInputs(i)
        /\ s.triggerType = 2 =>
              /\ Bit(s.days, DayOfTheWeek(now))
              /\ s.hour = Hour(now) /\ s.minute = Minute(now)
        /\ IF s.logic = 0
           THEN \A b \in MaskedInputs(i) : InputEqualsDesired(i, b)
           ELSE \E b \in MaskedInputs(i) : InputEqualsDesired(i, b)

\* C25: the single-input pass for changed input k dispatches only enabled
\* schedules of type Input or Combined whose inputMask contains bit k and
\* whose input condition (and, for Combined, day/hour/minute gate) holds; the
\* action goes to the schedule's primary targetId only, never to targetIdLow,
\* and a Time or Sensor schedule is never dispatched.
C25_SinglePassPrimaryOnly ==
    StartedBy(log, "irq") =>
        \A p \in 1 .. Len(log) :
            IsEvent(log[p], "dispatch") =>
                LET i == log[p][2]
                IN  /\ PassOf(log, p) \in Inputs
                    /\ SingleMatches(i, PassOf(log, p))
                    /\ log[p][3] = schedules[i].targetId

\* the pass for input 0 has dispatched a Combined OR rule over inputs 0 and 1,
\* one high and one low, at the gate's minute: relay 5 is on, relay 7 is not
C25_Witness ==
    /\ StartedBy(log, "irq")
    /\ schedules[0].triggerType = 2 /\ schedules[0].inputMask = 3
    /\ schedules[0].logic = 1
    /\ inputStates[0] /\ ~inputStates[1]
    /\ HandedOver(log, 0)
    /\ DispatchTargets(log, 0) = {5}
    /\ outputStates[5] /\ ~outputStates[7]

(***************************************************************************)
(* The one-second tick over Time, Combined, Input and Sensor rules         *)
(***************************************************************************)
\* Combined rules gated on Sunday 08:00 or on Sunday 09:00
TickCombinedRules ==
    {Rule([enabled |-> TRUE, triggerType |-> 2, days |-> 1, hour |-> h,
           minute |-> 0, inputMask |-> m, inputStates |-> 1, logic |-> lg,
           action |-> 1, targetType |-> 0, targetId |-> 5, targetIdLow |-> 7]) :
        h \in {8, 9}, m \in {1, 3}, lg \in {0, 1}}

\* rules of the other three types: a Time rule for Sunday 08:00, an Input rule
\* on input 1 and a Sensor rule on HT2 below 25.0 degrees
TickOtherRules ==
    {Rule([enabled |-> TRUE, triggerType |-> 0, days |-> 1, hour |-> 8,
           minute |-> 0, action |-> 1, targetType |-> 0, targetId |-> 2]),
     Rule([enabled |-> TRUE, triggerType |-> 1, inputMask |-> 2,
           inputStates |-> 2, logic |-> 0, action |-> 1, targetType |-> 0,
           targetId |-> 9, targetIdLow |-> 10]),
     Rule([enabled |-> TRUE, triggerType |-> 3, sensorIndex |-> 1,
           sensorTriggerType |-> 0, sensorCondition |-> 1,
           sensorThreshold |-> DEFAULT_THRESHOLD, action |-> 1,
           targetType |-> 0, targetId |-> 11, targetIdLow |-> 12])}

TickInit ==
    /\ schedules \in {RuleSet(r0, r1) :
          r0 \in TickCombinedRules,
          r1 \in TickCombinedRules \cup TickOtherRules}
    /\ inputStates \in InputVectors
    /\ inputLines = inputStates
    /\ now = ClockAt(0, 7, 59, 57)
    /\ lastTimeCheck = now
    /\ outputStates = AllOff
    /\ physicalOutputs = AllOff
    /\ pinFaults = {}
    /\ directInputStates = NoDirectInputs
    /\ sensors = [DefaultSensors EXCEPT ![1].sensorType = SENSOR_TYPE_DHT11]
    /\ interruptConfigs = DefaultInterruptConfigs
    /\ inputStateChanged = NoFlags
    /\ interruptsEnabled = FALSE
    /\ prevInputStates = NoFlags
    /\ eeprom = EmptyEeprom
    /\ analogTriggers = DefaultAnalogTriggers
    /\ analogValues = NoAnalogValues
    /\ analogLines = NoAnalogValues
    /\ ClockIdle
    /\ triggerStore = EmptyEeprom
    /\ interruptStore = EmptyEeprom
    /\ tickFires = NoFires
    /\ log = << >>

TickNext == TimePasses \/ LoopTimeCheck \/ LoopReadInputs

SpecTick == TickInit /\ [][TickNext]_vars

\* C26: within one time-based pass (one checkSchedules call) no schedule's
\* action is dispatched more than once, whatever the rule set, also when
\* several Combined schedules have their time gate match at the same minute:
\* the pass makes at most one dispatch of a schedule to each of its targets.
C26_OneDispatchPerPass ==
    StartedBy(log, "checkSchedules") =>
        \A i \in ScheduleIds :
            LET made == TargetsInOrder(log, i)
            IN  \A a \in DOMAIN made, b \in DOMAIN made :
                    made[a] = made[b] => a = b

\* the clock satisfies the time-based pass's test for schedule i
TickTimeMatches(i) ==
    /\ Bit(schedules[i].days, DayOfTheWeek(now))
    /\ schedules[i].hour = Hour(now)
    /\ schedules[i].minute = Minute(now)
    /\ Second(now) \in 0 .. 4

\* the inputs satisfy the logic of schedule i over its non-empty mask
TickInputsMatch(i) ==
    /\ MaskedInputs(i) # {}
    /\ IF schedules[i].logic = 0
       THEN \A b \in MaskedInputs(i) : InputEqualsDesired(i, b)
       ELSE \E b \in MaskedInputs(i) : InputEqualsDesired(i, b)

\* C27: a time-based pass dispatches actions only for Time schedules whose
\* time matches and for Combined schedules whose time gate and input condition
\* both hold; a Combined schedule's time match alone fires nothing and the
\* tick never dispatches an Input or a Sensor schedule.
C27_TickDispatchesTimeAndCombinedOnly ==
    StartedBy(log, "checkSchedules") =>
        \A i \in ScheduleIds :
            Dispatches(log, i) # {} =>
                /\ schedules[i].enabled
                /\ schedules[i].triggerType \in {0, 2}
                /\ TickTimeMatches(i)
                /\ schedules[i].triggerType = 2 => TickInputsMatch(i)

(***************************************************************************)
(* Analog triggers: the loop's 100 ms analog poll                          *)
(***************************************************************************)
\* if (condition == 0) ... else if (condition == 1) ... else if (== 2) ...
TriggerConditionMet(t, value) ==
    IF t.condition = 0 THEN value > t.threshold
    ELSE IF t.condition = 1 THEN value < t.threshold
    ELSE IF t.condition = 2 THEN Abs(value - t.threshold) < ANALOG_TOLERANCE
    ELSE FALSE

\* one iteration of checkAnalogTriggers
CheckAnalogTrigger(hw, i, values) ==
    LET t == analogTriggers[i]
    IN  IF ~t.enabled \/ U8(t.analogInput) >= NUM_ANALOG THEN hw
        ELSE IF ~TriggerConditionMet(t, values[U8(t.analogInput)]) THEN hw
        ELSE
          LET h0 == [hw EXCEPT !.log = Append(hw.log, <<"trigger", i>>)]
              h1 == IF t.targetType = 0 THEN ApplySingle(h0, t.action, t.targetId)
                    ELSE IF t.targetType = 1
                         THEN ApplyBitmask(h0, t.action, t.targetId, 0)
                         ELSE h0
          IN  WriteOutputs(h1)

\* the first iteration at or after i that gets past `if (enabled)`,
\* MAX_ANALOG_TRIGGERS when the loop runs out
NextEnabledTrigger(i) ==
    LET E == {j \in TriggerIds : j >= i /\ analogTriggers[j].enabled}
    IN  IF E = {} THEN MAX_ANALOG_TRIGGERS
        ELSE CHOOSE j \in E : \A k \in E : j <= k

RECURSIVE CheckAnalogTriggersFrom(_, _, _)
CheckAnalogTriggersFrom(hw, i, values) ==
    LET j == NextEnabledTrigger(i)
    IN  IF j >= MAX_ANALOG_TRIGGERS THEN hw
        ELSE CheckAnalogTriggersFrom(CheckAnalogTrigger(hw, j, values), j + 1,
                                     values)

\* ScheduleManager::checkAnalogTriggers over the stored readings `values`
CheckAnalogTriggers(hw, values) ==
    CheckAnalogTriggersFrom(
        [hw EXCEPT !.log = Append(hw.log, <<"checkAnalogTriggers">>)], 0,
        values)

\* if (currentMillis - _lastAnalogCheck >= 100) { analogChanged =
\* readAllAnalogInputs(); if (analogChanged) checkAnalogTriggers(); }
LoopAnalogCheck ==
    /\ LET r == ReadAllAnalogInputs(analogValues, analogLines)
           h0 == [StartHw EXCEPT !.log = <<<<"analogPoll">>>>]
       IN  /\ analogValues' = r.values
           /\ Commit(IF r.changed THEN CheckAnalogTriggers(h0, r.values)
                     ELSE h0)
    /\ UNCHANGED <<clockVars, analogLines, inputLines, analogTriggers, triggerStore,
                   interruptStore, pinFaults, schedules, inputStates,
                   directInputStates, sensors, now, lastTimeCheck,
                   interruptConfigs, inputStateChanged, interruptsEnabled,
                   prevInputStates, eeprom, tickFires>>

\* averaged readings around DEFAULT_ANALOG_THRESHOLD: two that differ by less
\* than ANALOG_CHANGE_THRESHOLD, values inside and outside ANALOG_TOLERANCE
AnalogLevels == {0, 2040, 2045, 2060, 3000}

\* the reading of analog pin A2 varies, the other pins read 0
AnalogVectors ==
    {[i \in AnalogInputs |-> IF i = 1 THEN v ELSE 0] :
        v \in AnalogLevels}

\* the reading an analog pin delivers changes
AnalogLineChanges ==
    /\ analogLines' \in AnalogVectors \ {analogLines}
    /\ log' = << >>
    /\ UNCHANGED <<clockVars, analogValues, inputLines, analogTriggers, triggerStore,
                   interruptStore, physicalOutputs, pinFaults, schedules,
                   outputStates, inputStates, directInputStates, sensors, now,
                   lastTimeCheck, interruptConfigs, inputStateChanged,
                   interruptsEnabled, prevInputStates, eeprom, tickFires>>

\* triggers on pin A2 or on the invalid pin 4, with each condition
AnalogTriggerSets ==
    {[DefaultAnalogTriggers EXCEPT
        ![0] = Trigger([enabled |-> en, analogInput |-> ai, condition |-> c,
                        action |-> a, targetType |-> 0, targetId |-> 4]),
        ![MAX_ANALOG_TRIGGERS - 1] =
              Trigger([enabled |-> TRUE, analogInput |-> 1,
                       threshold |-> 1000, condition |-> 0, action |-> 1,
                       targetType |-> 1, targetId |-> 192])] :
        en \in BOOLEAN, ai \in {1, NUM_ANALOG}, c \in 0 .. 2,
        a \in {1, 2}}

\* an enabled Input rule that a full scan dispatches while input 0 is high
AnalogBystanderRule ==
    Rule([enabled |-> TRUE, triggerType |-> 1, inputMask |-> 1,
          inputStates |-> 1, logic |-> 0, action |-> 1, targetType |-> 0,
          targetId |-> 5])

AnalogInit ==
    /\ schedules = RuleSet(AnalogBystanderRule,
                           DefaultSchedule(MAX_SCHEDULES - 1))
    /\ inputStates \in InputVectors
    /\ inputLines = inputStates
    /\ now = ClockAt(0, 8, 0, 30)
    /\ lastTimeCheck = now
    /\ outputStates = AllOff
    /\ physicalOutputs = AllOff
    /\ pinFaults = {}
    /\ directInputStates = NoDirectInputs
    /\ sensors = DefaultSensors
    /\ interruptConfigs = DefaultInterruptConfigs
    /\ inputStateChanged = NoFlags
    /\ interruptsEnabled = FALSE
    /\ prevInputStates = NoFlags
    /\ eeprom = EmptyEeprom
    /\ analogTriggers \in AnalogTriggerSets
    /\ analogLines \in AnalogVectors
    /\ ClockIdle
    /\ analogValues = ReadAllAnalogInputs(NoAnalogValues, analogLines).values
    /\ triggerStore = EmptyEeprom
    /\ interruptStore = EmptyEeprom
    /\ tickFires = NoFires
    /\ log = << >>

AnalogNext == AnalogLineChanges \/ LoopAnalogCheck \/ EvaluateRequest

SpecAnalog == AnalogInit /\ [][AnalogNext]_vars

\* analog trigger i fired in the handler whose trace is l
Fired(l, i) == \E k \in 1 .. Len(l) : l[k] = <<"trigger", i>>

\* C28: whenever an analog trigger fires, the full-scan input-based pass
\* (checkInputBasedSchedules without arguments) is run, as it is on an
\* external evaluate request.
C28_TriggerRunsFullScan ==
    (\E i \in TriggerIds : Fired(log, i)) =>
        \E k \in 1 .. Len(log) : IsEvent(log[k], "fullScan")

\* C29: on every analog-poll tick all enabled analog triggers are evaluated
\* against the current analog values: a trigger whose condition holds applies
\* its action on that tick, whether or not the reading changed since the
\* previous tick.
C29_EveryTickEvaluatesTriggers ==
    StartedBy(log, "analogPoll") =>
        \A i \in TriggerIds :
            LET t == analogTriggers[i]
            IN  (/\ t.enabled /\ t.analogInput < NUM_ANALOG
                 /\ TriggerConditionMet(t, analogValues[t.analogInput])) =>
                    Fired(log, i)

(***************************************************************************)
(* Interrupt configuration requests over HTTP (handleUpdateInterrupts)      *)
(***************************************************************************)
\* the InterruptConfig the HTTP handler builds from the "interrupt" object of
\* a request for slot id: a missing field takes the `|` default
InterruptFromJson(interruptJson, id) ==
    [enabled |-> IF "enabled" \in DOMAIN interruptJson
                 THEN interruptJson.enabled ELSE FALSE,
     name |-> IF "name" \in DOMAIN interruptJson
              THEN interruptJson.name ELSE "Input",
     priority |-> IF "priority" \in DOMAIN interruptJson
                  THEN U8(interruptJson.priority) ELSE INPUT_PRIORITY_MEDIUM,
     inputIndex |-> IF "inputIndex" \in DOMAIN interruptJson
                    THEN U8(interruptJson.inputIndex) ELSE id,
     triggerType |-> IF "triggerType" \in DOMAIN interruptJson
                     THEN U8(interruptJson.triggerType)
                     ELSE INTERRUPT_TRIGGER_CHANGE]

\* handleUpdateInterrupts, "interrupt" branch; id is -1 when the object
\* carries none
HandleUpdateInterrupts(id, interruptJson) ==
    /\ id >= 0 /\ id < NUM_INPUTS
    /\ UpdateInterruptConfig(id, InterruptFromJson(interruptJson, id))

\* "interrupt" objects a client sends: with and without an inputIndex
InterruptObjects ==
    {[enabled |-> TRUE, name |-> "Door", priority |-> INPUT_PRIORITY_HIGH],
     [enabled |-> TRUE, name |-> "Door", inputIndex |-> 3],
     [enabled |-> FALSE, inputIndex |-> 1, triggerType |-> 0]}

IndexInit ==
    /\ schedules = DefaultSchedules
    /\ inputStates = NoFlags
    /\ inputLines = inputStates
    /\ now = ClockAt(0, 8, 0, 2)
    /\ lastTimeCheck = now
    /\ Quiescent

IndexNext ==
    \/ \E id \in {-1, 0, 1, NUM_INPUTS - 1, NUM_INPUTS},
          interruptJson \in InterruptObjects :
          HandleUpdateInterrupts(id, interruptJson)
    \/ \E index \in {0, 1}, enable \in BOOLEAN : EnableInterrupt(index, enable)
    \/ \E enable \in BOOLEAN : EnableAllInterrupts(enable)
    \/ Reboot

SpecIndex == IndexInit /\ [][IndexNext]_vars

\* C30: after any sequence of initInterruptConfigs, loadInterruptConfigs,
\* updateInterruptConfig (also through the HTTP update handler),
\* enableInterrupt and enableAllInterrupts, every InterruptConfig slot i has
\* inputIndex = i.
C30_InputIndexIsSlot ==
    \A i \in Inputs : interruptConfigs[i].inputIndex = i

(***************************************************************************)
(* Schedules over the direct inputs HT1..HT3 (mask bits 16..18)            *)
(***************************************************************************)
\* "schedule" objects of update requests: Input rules whose mask selects
\* digital input 0, direct input HT1 (bit 16), or both
DirectRequests ==
    {[enabled |-> TRUE, triggerType |-> 1, inputMask |-> m, inputStates |-> m,
      logic |-> lg, action |-> 1, targetType |-> 0, targetId |-> 5] :
        m \in {1, 65536, 65537}, lg \in {0, 1}}

\* handleUpdateSchedule, "schedule" branch, for the object scheduleJson
HandleUpdateSchedule(id, scheduleJson) == UpdateSchedule(id, Rule(scheduleJson))

DirectVectors == {[i \in DirectInputs |-> i \in S] : S \in SUBSET {0}}

\* HardwareManager::readInputs from the loop: the expander lines and the three
\* direct pins
LoopReadAllInputs ==
    /\ ~interruptsEnabled
    /\ inputLines' \in InputVectors
    /\ inputStates' = inputLines'
    /\ directInputStates' \in DirectVectors
    /\ log' = << >>
    /\ UNCHANGED <<clockVars, analogValues, analogLines, analogTriggers, triggerStore,
                   interruptStore, physicalOutputs, pinFaults, schedules,
                   outputStates, sensors, now, lastTimeCheck, interruptConfigs,
                   inputStateChanged, interruptsEnabled, prevInputStates,
                   eeprom, tickFires>>

DirectInit ==
    /\ schedules = DefaultSchedules
    /\ inputStates \in InputVectors
    /\ inputLines = inputStates
    /\ now = ClockAt(0, 8, 0, 30)
    /\ lastTimeCheck = now
    /\ Quiescent

DirectNext ==
    \/ \E scheduleJson \in DirectRequests :
          HandleUpdateSchedule(0, scheduleJson)
    \/ LoopReadAllInputs
    \/ EvaluateRequest

SpecDirect == DirectInit /\ [][DirectNext]_vars

\* C31: a schedule stored through updateSchedule with an inputMask that
\* selects a direct input (bits 16..18) keeps that bit, so that the direct
\* input's state takes part in the schedule's condition: after the update the
\* stored inputMask and inputStates are the requested ones.
C31_DirectBitKept ==
    [][\A scheduleJson \in DirectRequests :
          HandleUpdateSchedule(0, scheduleJson) =>
              /\ schedules'[0].inputMask = scheduleJson.inputMask
              /\ schedules'[0].inputStates = scheduleJson.inputStates]_vars

(***************************************************************************)
(* Fields a trigger type does not read                                     *)
(***************************************************************************)
TimeFields == {"days", "hour", "minute"}
InputFields == {"inputMask", "inputStates", "logic"}
SensorFields == {"sensorIndex", "sensorTriggerType", "sensorCondition",
                 "sensorThreshold"}

\* the fields the evaluators never read for a schedule of this trigger type
IrrelevantFields(triggerType) ==
    IF triggerType = 0 THEN InputFields \cup SensorFields
    ELSE IF triggerType = 1 THEN TimeFields \cup SensorFields
    ELSE IF triggerType = 2 THEN SensorFields
    ELSE IF triggerType = 3 THEN TimeFields \cup InputFields
    ELSE {}

\* one rule of each trigger type: Sunday 08:00, input 0 high, HT2 below 25.0
TypedRules ==
    {Rule([enabled |-> TRUE, triggerType |-> ty, days |-> 1, hour |-> 8,
           minute |-> 0, inputMask |-> 1, inputStates |-> 1, logic |-> 0,
           sensorIndex |-> 1, sensorTriggerType |-> 0, sensorCondition |-> 1,
           sensorThreshold |-> DEFAULT_THRESHOLD, action |-> 1,
           targetType |-> 0, targetId |-> 5, targetIdLow |-> 7]) :
        ty \in 0 .. 3}

\* values an update request gives the fields of one group
TimeEdits ==
    {[days |-> 127, hour |-> 8, minute |-> 0],
     [days |-> 0, hour |-> 0, minute |-> 0]}
InputEdits ==
    {[inputMask |-> 0, inputStates |-> 0, logic |-> 0],
     [inputMask |-> 3, inputStates |-> 2, logic |-> 1]}
SensorEdits ==
    {[sensorIndex |-> 3, sensorTriggerType |-> 1, sensorCondition |-> 0,
      sensorThreshold |-> 0]}

\* rule r with the fields of edit e replaced
Edited(r, e) == [f \in DOMAIN r |-> IF f \in DOMAIN e THEN e[f] ELSE r[f]]

\* an update request that rewrites schedule 0 with other values in one group
\* of fields its trigger type does not read
EditIrrelevant ==
    \E e \in TimeEdits \cup InputEdits \cup SensorEdits :
        /\ DOMAIN e \subseteq IrrelevantFields(schedules[0].triggerType)
        /\ Edited(schedules[0], e) # schedules[0]
        /\ UpdateSchedule(0, Edited(schedules[0], e))

\* input 0 dispatched on both edges at high priority
EdgeConfigs ==
    [DefaultInterruptConfigs EXCEPT
        ![0] = [@ EXCEPT !.enabled = TRUE, !.priority = INPUT_PRIORITY_HIGH,
                         !.triggerType = INTERRUPT_TRIGGER_CHANGE]]

IrrelevantInit ==
    /\ schedules \in {RuleSet(r0, DefaultSchedule(MAX_SCHEDULES - 1)) :
                         r0 \in TypedRules}
    /\ inputStates \in InputVectors
    /\ inputLines = inputStates
    /\ now = ClockAt(0, 8, 0, 3)
    /\ lastTimeCheck = now
    /\ outputStates = AllOff
    /\ physicalOutputs = AllOff
    /\ pinFaults = {}
    /\ directInputStates = NoDirectInputs
    /\ sensors = [DefaultSensors EXCEPT ![1].sensorType = SENSOR_TYPE_DHT11]
    /\ interruptConfigs = EdgeConfigs
    /\ inputStateChanged = NoFlags
    /\ interruptsEnabled \in BOOLEAN
    /\ prevInputStates = NoFlags
    /\ eeprom = EmptyEeprom
    /\ analogTriggers = DefaultAnalogTriggers
    /\ analogValues = NoAnalogValues
    /\ analogLines = NoAnalogValues
    /\ ClockIdle
    /\ triggerStore = EmptyEeprom
    /\ interruptStore = EmptyEeprom
    /\ tickFires = NoFires
    /\ log = << >>

IrrelevantNext ==
    \/ EditIrrelevant
    \/ LoopReadInputs
    \/ EvaluateRequest
    \/ TimePasses
    \/ LoopTimeCheck
    \/ ProcessInputInterrupts

SpecIrrelevant == IrrelevantInit /\ [][IrrelevantNext]_vars

\* rule r with every field its trigger type makes irrelevant set to the
\* constructor's default
RelevantPart(r) ==
    [f \in DOMAIN r |->
        IF f \in IrrelevantFields(r.triggerType) THEN DefaultSchedule(0)[f]
        ELSE r[f]]

MaskOf(r) == {b \in Inputs : Bit(r.inputMask, b)}

\* the masked inputs satisfy the logic of rule r
InputsSatisfy(r) ==
    IF r.logic = 0
    THEN \A b \in MaskOf(r) : inputStates[b] <=> Bit(r.inputStates, b)
    ELSE \E b \in MaskOf(r) : inputStates[b] <=> Bit(r.inputStates, b)

GateOpen(r) ==
    /\ Bit(r.days, DayOfTheWeek(now))
    /\ r.hour = Hour(now) /\ r.minute = Minute(now)

\* the targets a full scan dispatches rule r to, in order
ScanTargets(r) ==
    IF ~r.enabled THEN << >>
    ELSE IF r.triggerType \in {1, 2}
    THEN IF /\ MaskOf(r) # {}
            /\ r.triggerType = 2 => GateOpen(r)
            /\ InputsSatisfy(r)
         THEN (IF (\E b \in MaskOf(r) : inputStates[b]) /\ r.targetId > 0
               THEN <<r.targetId>> ELSE << >>)
              \o (IF (\E b \in MaskOf(r) : ~inputStates[b])
                     /\ r.targetIdLow > 0
                  THEN <<r.targetIdLow>> ELSE << >>)
         ELSE << >>
    ELSE IF r.triggerType = 3
    THEN IF /\ r.sensorIndex < 3
            /\ sensors[r.sensorIndex].sensorType # SENSOR_TYPE_DIGITAL
            /\ SensorConditionMet(r)
            /\ r.targetId > 0
         THEN <<r.targetId>> ELSE << >>
    ELSE << >>

\* the targets a tick dispatches rule r to when r is the only Combined rule
TickTargets(r) ==
    IF r.enabled /\ r.triggerType \in {0, 2} /\ GateOpen(r)
       /\ Second(now) < TIME_WINDOW
    THEN IF r.triggerType = 0 THEN <<r.targetId>> ELSE ScanTargets(r)
    ELSE << >>

\* the targets the single-input pass of input k dispatches rule r to
SingleTargets(r, k) ==
    IF /\ r.enabled /\ r.triggerType \in {1, 2}
       /\ k \in MaskOf(r)
       /\ r.triggerType = 2 => GateOpen(r)
       /\ InputsSatisfy(r)
    THEN <<r.targetId>> ELSE << >>

\* C32: two rule sets that differ only in fields the trigger type makes
\* irrelevant (days/hour/minute of Input and Sensor schedules; inputMask,
\* inputStates, logic of Time and Sensor schedules; sensor fields of Time,
\* Input and Combined schedules) produce the same output changes under the
\* same ticks, input samples and sensor readings: what the tick, the full
\* scan and the single-input pass dispatch for a schedule is determined by the
\* schedule with its irrelevant fields reset to their defaults.
C32_IrrelevantFieldsIgnored ==
    \A i \in ScheduleIds :
        LET r == RelevantPart(schedules[i])
        IN  /\ StartedBy(log, "fullScan") =>
                  TargetsInOrder(log, i) = ScanTargets(r)
            /\ StartedBy(log, "checkSchedules") =>
                  TargetsInOrder(log, i) = TickTargets(r)
            /\ StartedBy(log, "irq") =>
                  TargetsInOrder(log, i) =
                      IF HandedOver(log, 0) THEN SingleTargets(r, 0)
                      ELSE << >>

\* a full scan has dispatched an Input rule whose time fields were rewritten
\* to match the clock
C32_Witness ==
    /\ schedules[0].triggerType = 1 /\ schedules[0].days = 127
    /\ schedules[0].hour = 8
    /\ Hour(now) = 8
    /\ StartedBy(log, "fullScan")
    /\ Dispatches(log, 0) # {}
    /\ outputStates[5]

(***************************************************************************)
(* Network time sync: SensorManager::syncTimeFromNTP and the clock sources *)
(***************************************************************************)
maxRetries == 10

\* 24 * 3600: the system clock reads less before any time was set
ONE_DAY == 24 * 3600

\* seconds before ONE_DAY from which the model lets the unset clock advance
SyncHorizon == 3

\* times an SNTP reply and a client's set-time request carry
NetworkTimes == {20000 * ONE_DAY}
ClientTimes == {19000 * ONE_DAY}

\* readings of the unset system clock when a sync is requested
UptimeReadings == {0, ONE_DAY - SyncHorizon, ONE_DAY, ONE_DAY + 1}

\* SensorManager::getCurrentTime
GetCurrentTime == IF rtcInitialized THEN rtcTime ELSE systemTime

\* syncTimeFromNTP up to the loop: configTime, now = time(nullptr), retry = 0
SyncTimeFromNTP ==
    /\ ntpPc = "idle"
    /\ ntpPc' = "loop"
    /\ ntpNow' = systemTime
    /\ retry' = 0
    /\ log' = <<<<"syncTimeFromNTP">>>>
    /\ UNCHANGED <<controllerVars, systemTime, rtcInitialized, rtcTime>>

\* one iteration of the wait loop: delay(500), now = time(nullptr), retry++;
\* the system clock moved on by at most a second during the delay
SyncWait ==
    /\ ntpPc = "loop"
    /\ ntpNow < ONE_DAY /\ retry < maxRetries
    /\ \E passed \in {0, 1} :
          /\ passed = 1 =>
                (systemTime >= ONE_DAY - SyncHorizon /\ systemTime <= ONE_DAY)
          /\ systemTime' = systemTime + passed
    /\ ntpNow' = systemTime'
    /\ retry' = retry + 1
    /\ log' = Append(log, <<"wait">>)
    /\ UNCHANGED <<controllerVars, rtcInitialized, rtcTime, ntpPc>>

\* syncTimeFromNTP after the loop: the RTC is adjusted and true returned when
\* now > 24 * 3600, false returned otherwise
SyncReturn ==
    /\ ntpPc = "loop"
    /\ ~(ntpNow < ONE_DAY /\ retry < maxRetries)
    /\ rtcTime' = IF ntpNow > ONE_DAY /\ rtcInitialized THEN ntpNow ELSE rtcTime
    /\ ntpPc' = "idle"
    /\ log' = Append(log, <<"return", ntpNow > ONE_DAY>>)
    /\ UNCHANGED <<controllerVars, systemTime, rtcInitialized, ntpNow, retry>>

\* the SNTP client receives a reply during a delay and sets the system clock
NtpResponse ==
    /\ ntpPc = "loop"
    /\ \E t \in NetworkTimes : systemTime' = t
    /\ UNCHANGED <<controllerVars, log, rtcInitialized, rtcTime, ntpPc, ntpNow,
                   retry>>

\* SensorManager::setCurrentTime with the time a client sent
SetCurrentTime(t) ==
    /\ ntpPc = "idle"
    /\ IF rtcInitialized
       THEN /\ rtcTime' = t
            /\ UNCHANGED systemTime
       ELSE /\ systemTime' = t
            /\ UNCHANGED rtcTime
    /\ log' = <<<<"setCurrentTime">>>>
    /\ UNCHANGED <<controllerVars, rtcInitialized, ntpPc, ntpNow, retry>>

NtpInit ==
    /\ schedules = DefaultSchedules
    /\ outputStates = AllOff
    /\ physicalOutputs = AllOff
    /\ pinFaults = {}
    /\ inputStates = NoFlags
    /\ inputLines = NoFlags
    /\ directInputStates = NoDirectInputs
    /\ sensors = DefaultSensors
    /\ interruptConfigs = DefaultInterruptConfigs
    /\ inputStateChanged = NoFlags
    /\ interruptsEnabled = FALSE
    /\ prevInputStates = NoFlags
    /\ eeprom = EmptyEeprom
    /\ analogTriggers = DefaultAnalogTriggers
    /\ analogValues = NoAnalogValues
    /\ analogLines = NoAnalogValues
    /\ triggerStore = EmptyEeprom
    /\ interruptStore = EmptyEeprom
    /\ tickFires = NoFires
    /\ log = << >>
    /\ now = ClockAt(0, 0, 0, 0)
    /\ lastTimeCheck = now
    /\ systemTime \in UptimeReadings
    /\ rtcInitialized \in BOOLEAN
    /\ rtcTime = 0
    /\ ntpPc = "idle"
    /\ ntpNow = 0
    /\ retry = 0

NtpNext ==
    \/ SyncTimeFromNTP
    \/ SyncWait
    \/ SyncReturn
    \/ NtpResponse
    \/ \E t \in ClientTimes : SetCurrentTime(t)

\* the loop of a running call is always scheduled
SpecNtp ==
    NtpInit /\ [][NtpNext]_vars /\ WF_vars(SyncWait) /\ WF_vars(SyncReturn)

\* the call returned in this state, with the value v
SyncReturned(v) ==
    /\ StartedBy(log, "syncTimeFromNTP")
    /\ log[Len(log)] = <<"return", v>>

\* C33: syncTimeFromNTP always terminates: it waits for the network time at
\* most 10 times, then returns true if the time was obtained and false
\* otherwise, after which getCurrentTime still returns a local time: the
\* number of waits never exceeds maxRetries, a running call always returns,
\* true is returned exactly when the last reading of the system clock was a
\* network time, and the clock the schedules read is the RTC's or the
\* system's.
C33_SyncTerminates ==
    /\ [](retry <= maxRetries)
    /\ [](ntpPc = "loop" => <>(ntpPc = "idle"))
    /\ [](SyncReturned(TRUE) => ntpNow \in NetworkTimes)
    /\ [](SyncReturned(FALSE) => ntpNow \notin NetworkTimes)
    /\ [](GetCurrentTime \in {rtcTime, systemTime})

(***************************************************************************)
(* Requests on one schedule slot                                           *)
(***************************************************************************)
\* C34: updateSchedule with a valid id, and the delete / enable requests on
\* one schedule, change only the addressed slot: every other slot keeps all
\* its fields and its index, and a deleted slot differs from its previous
\* contents only in enabled = false.
C34_OnlyAddressedSlot ==
    [][\A id \in ScheduleIds :
          /\ (log' = <<<<"updateSchedule", id>>>>
                 \/ log' = <<<<"setEnabled", id>>>>)
                => \A j \in ScheduleIds \ {id} : schedules'[j] = schedules[j]
          /\ log' = <<<<"setEnabled", id>>>>
                => \E enabled \in BOOLEAN :
                      schedules'[id] = [schedules[id] EXCEPT !.enabled = enabled]
          /\ SetScheduleEnabled(id, FALSE)
                => schedules'[id] = [schedules[id] EXCEPT !.enabled = FALSE]
      ]_vars

\* a configured slot was deleted while the last slot holds another rule
C34_Witness ==
    /\ log = <<<<"setEnabled", 0>>>>
    /\ ~schedules[0].enabled
    /\ schedules[0].name = "Pump"
    /\ schedules[MAX_SCHEDULES - 1].enabled
    /\ schedules[MAX_SCHEDULES - 1].triggerType = 1

(***************************************************************************)
(* The three store regions of the EEPROM                                   *)
(***************************************************************************)
RegionsInit == StoreInit

RegionsNext ==
    \/ \E id \in StoreIds, rule \in StoreRules : UpdateSchedule(id, rule)
    \/ \E id \in StoreIds, enabled \in BOOLEAN : SetScheduleEnabled(id, enabled)
    \/ \E trigger \in BootTriggers :
          UpdateAnalogTrigger(MAX_ANALOG_TRIGGERS - 1, trigger)
    \/ \E enable \in BOOLEAN : EnableAllInterrupts(enable)

SpecRegions == RegionsInit /\ [][RegionsNext]_vars

\* C35: saving one store never alters the persisted bytes of another:
\* saveSchedules (region from 512) leaves the persisted analog triggers (from
\* 2048) and interrupt configs (from 3584) unchanged, and saveAnalogTriggers
\* leaves the persisted schedules and interrupt configs unchanged, for every
\* serialized length, the terminator byte written at base + n included.
C35_SavesKeepOtherStores ==
    [][/\ (\E id \in ScheduleIds :
              \/ log' = <<<<"updateSchedule", id>>>>
              \/ log' = <<<<"setEnabled", id>>>>)
            => (triggerStore' = triggerStore /\ interruptStore' = interruptStore)
       /\ log' = <<<<"updateAnalogTrigger", MAX_ANALOG_TRIGGERS - 1>>>>
            => (eeprom' = eeprom /\ interruptStore' = interruptStore)
      ]_vars

(***************************************************************************)
(* Outputs a dispatch leaves alone                                         *)
(***************************************************************************)
\* C36: a dispatch of an action changes only targeted outputs: for a Single
\* target only output targetId, for a Bitmask target only the outputs whose
\* bit is set in targetId; every other entry of the 16-output vector is
\* unchanged, and an Off or On dispatch applied twice gives the same vector
\* as applied once.
C36_OnlyTargetedOutputs ==
    \A k \in DispatchPositions(log) :
        LET s == schedules[log[k][2]]
            targetId == log[k][3]
            before == log[k][4]
        IN  k = LastDispatch(log) =>
            /\ s.targetType = 0 =>
                  \A r \in Outputs \ {targetId} : outputStates[r] = before[r]
            /\ s.targetType = 1 =>
                  \A r \in Outputs :
                      ~Bit(targetId, r) => outputStates[r] = before[r]
            /\ s.action \in {0, 1} =>
                  ExecuteScheduleAction(StartHw, log[k][2], targetId).out
                      = outputStates

(***************************************************************************)
(* The first relay as the target of the full scan                          *)
(***************************************************************************)
\* the input condition of schedule i on the current inputs
InputConditionMet(i) ==
    IF schedules[i].logic = 0
    THEN \A b \in MaskedInputs(i) : InputEqualsDesired(i, b)
    ELSE \E b \in MaskedInputs(i) : InputEqualsDesired(i, b)

\* C37: in the full scan, a matching Single-target Input schedule with
\* targetId = 0 (the first relay) and a masked input currently true applies
\* its action to output 0, exactly as the single-input pass does for the same
\* schedule: the scan dispatches the schedule to target 0 and, the action
\* being On, output 0 is on afterwards.
C37_FirstRelayInFullScan ==
    StartedBy(log, "fullScan") =>
        \A i \in ScheduleIds :
            (/\ IsInputRule(i)
             /\ schedules[i].targetType = 0
             /\ schedules[i].targetId = 0
             /\ schedules[i].inputMask # 0
             /\ InputConditionMet(i)
             /\ \E b \in MaskedInputs(i) :
                   InputEqualsDesired(i, b) /\ inputStates[b])
            => (0 \in DispatchTargets(log, i) /\ outputStates[0])

(***************************************************************************)
(* Enabling one input while the dispatcher is off                          *)
(***************************************************************************)
\* C38: after a successful enableInterrupt(i, true) or updateInterruptConfig
\* (i, cfg with enabled = true) on an input whose priority is High, Medium or
\* Low, interrupt dispatch is active (areInterruptsEnabled() is true),
\* whatever the interrupt system's state was before the call.
C38_EnableActivatesDispatch ==
    \A i \in Inputs :
        (/\ \/ log = <<<<"enableInterrupt", i>>>>
            \/ log = <<<<"updateInterruptConfig", i>>>>
         /\ interruptConfigs[i].enabled
         /\ interruptConfigs[i].priority # INPUT_PRIORITY_NONE)
        => interruptsEnabled

(***************************************************************************)
(* Dispatcher state under configuration requests                           *)
(***************************************************************************)
\* configurations an update request writes to input 0
SetupConfigs ==
    {[enabled |-> e, priority |-> p, inputIndex |-> 0,
      triggerType |-> INTERRUPT_TRIGGER_CHANGE, name |-> "Door"] :
        e \in BOOLEAN, p \in {INPUT_PRIORITY_HIGH, INPUT_PRIORITY_NONE}}

SetupInit == ClassifyInit

SetupNext ==
    \/ ProcessInputInterrupts
    \/ LoopReadInputs
    \/ \E config \in SetupConfigs : UpdateInterruptConfig(0, config)
    \/ \E index \in {0, 1}, enable \in BOOLEAN : EnableInterrupt(index, enable)
    \/ \E enable \in BOOLEAN : EnableAllInterrupts(enable)

SpecSetup == SetupInit /\ [][SetupNext]_vars

\* C39: after begin and after any sequence of updateInterruptConfig,
\* enableInterrupt and enableAllInterrupts calls, if interrupt dispatch is
\* active then at least one InterruptConfig is enabled with a priority other
\* than None; and whenever dispatch is switched off or set up again (a
\* configuration changes while dispatch is active) all 16 sticky flags are
\* cleared.
C39_ActiveMeansConfigured ==
    /\ [](interruptsEnabled =>
            \E i \in Inputs :
                /\ interruptConfigs[i].enabled
                /\ interruptConfigs[i].priority # INPUT_PRIORITY_NONE)
    /\ [][(interruptsEnabled
             /\ (~interruptsEnabled' \/ interruptConfigs' # interruptConfigs))
            => inputStateChanged' = NoFlags]_vars

\* dispatch was switched off by disabling input 1 while input 0, enabled at
\* priority None, had been sampled high
C39_Witness ==
    /\ log = <<<<"enableInterrupt", 1>>>>
    /\ ~interruptsEnabled
    /\ interruptConfigs[0].enabled
    /\ interruptConfigs[0].priority = INPUT_PRIORITY_NONE
    /\ ~interruptConfigs[1].enabled
    /\ prevInputStates[0]
    /\ inputStateChanged = NoFlags

(***************************************************************************)
(* The first sample after interrupt dispatch is enabled                    *)
(***************************************************************************)
\* C40: an input with an enabled Rising (or Change) config whose level has
\* not changed since interrupt dispatch was enabled or re-enabled is never
\* dispatched: the first sample after enabling compares against the input's
\* level at enabling time, not against a stale or initial previous-state
\* vector.  The lines are read only while dispatch is off, so in every
\* processInputInterrupts pass each input still has the level it had when
\* dispatch was enabled: no pass hands a Rising or Change input over.
C40_UnchangedNeverDispatched ==
    StartedBy(log, "irq") =>
        \A i \in Inputs :
            (/\ interruptConfigs[i].enabled
             /\ interruptConfigs[i].triggerType
                   \in {INTERRUPT_TRIGGER_RISING, INTERRUPT_TRIGGER_CHANGE}
             /\ inputLines[i] = inputStates[i])
            => ~HandedOver(log, i)
====
